---- MODULE Spec2Model ----
(***************************************************************************)
(* Branch relationship tracking and evolve engine of baobranch.            *)
(*                                                                         *)
(* The repository (the git backend) is the state: commits with their       *)
(* first parent, branch tips, HEAD, and the three marker families kept as  *)
(* git tags (stale-parent, merge-base, evolve-progress).  Every tool       *)
(* command is an action; the helpers the commands call are operators that  *)
(* take a repository record and return the repository they leave behind.   *)
(* A call is modelled by the value it resolves to.                         *)
(***************************************************************************)
EXTENDS Integers, Sequences, FiniteSets, TLC

\* ------------------------------------------------------------------ bounds
MaxCommands == 3    \* commands the user runs

\* --------------------------------------------------------------- constants
Trunk == "main"
Feature == {"A", "B", "C"}
Branches == Feature \cup {Trunk}
\* `git branch` prints the detached entry first, then refnames in byte order
Pseudo == "(no branch, rebasing)"
BranchOrder == <<Pseudo, "A", "B", "C", "main">>
\* the name of a branch that exists no more, and its place among the names
Gone == "gone"
NameOrder == <<Pseudo, "A", "B", "C", Gone, "main">>
ScopeOrder == <<"directs", "full", "self">>
NoRebase == [from |-> "", onto |-> 0]

VARIABLES
  parentOf,     \* commit -> first-parent commit (0: none), a sequence
  nCommits,     \* commits the repository holds
  tip,          \* branch -> tip commit
  head,         \* checked-out branch, or "HEAD" while a rebase is stopped
  detachedAt,   \* commit HEAD sits on while detached (0 otherwise)
  staleTags,    \* bbranch-stale-{{branchName}}-{{tagNum}} -> commit
  mbTags,       \* merge-base-master-<num> -> commit
  evolveTags,   \* bbranch-evolve-{{scope}}-{{step}} -> commit
  rebasing,     \* the stopped git rebase, NoRebase if none
  cmds,         \* commands run so far
  pc,           \* position of the running evolve process
  ev,           \* locals of the running evolve process
  obs           \* what the last command did (observation only)

vars == <<parentOf, nCommits, tip, head, detachedAt, staleTags, mbTags,
          evolveTags, rebasing, cmds, pc, ev, obs>>

\* the repository as one record
Repo == [par |-> parentOf, n |-> nCommits, tip |-> tip, head |-> head,
         at |-> detachedAt, stale |-> staleTags, mb |-> mbTags,
         evo |-> evolveTags, reb |-> rebasing]

\* ------------------------------------------------------------ git backend
RECURSIVE Anc(_, _)
\* the first-parent history of commit c, c included
Anc(par, c) == IF c = 0 THEN {} ELSE {c} \cup Anc(par, par[c])

HeadCommit(g) == IF g.head = "HEAD" THEN g.at ELSE g.tip[g.head]

\* git rev-parse <ref>^ : 0 when the ref does not resolve or has no parent
FirstParent(g, ref) ==
  IF ref \in Branches THEN g.par[g.tip[ref]]
  ELSE IF ref = "HEAD" THEN g.par[HeadCommit(g)]
  ELSE 0

\* git branch --contains c
BranchContains(g, c) ==
  {b \in Branches : c \in Anc(g.par, g.tip[b])}
    \cup (IF g.head = "HEAD" /\ c \in Anc(g.par, g.at) THEN {Pseudo} ELSE {})

\* git branch --points-at c
PointsAt(g, c) ==
  {b \in Branches : c # 0 /\ g.tip[b] = c}
    \cup (IF g.head = "HEAD" /\ c # 0 /\ g.at = c THEN {Pseudo} ELSE {})

\* git merge-base c1 c2
MergeBase(par, c1, c2) ==
  LET common == Anc(par, c1) \cap Anc(par, c2)
  IN IF common = {} THEN 0
     ELSE CHOOSE c \in common : common \subseteq Anc(par, c)

Pos(seq, x) == CHOOSE i \in 1..Len(seq) : seq[i] = x
NameRank(name) == Pos(NameOrder, name)

\* the names of S in the order git prints them
SortNames(S) == SelectSeq(BranchOrder, LAMBDA x : x \in S)

RECURSIVE SortNums(_)
SortNums(S) ==
  IF S = {} THEN <<>>
  ELSE LET m == CHOOSE x \in S : \A y \in S : x <= y
       IN <<m>> \o SortNums(S \ {m})

RECURSIVE Dedup(_)
Dedup(s) ==
  IF s = <<>> THEN <<>>
  ELSE LET r == Dedup(SubSeq(s, 1, Len(s) - 1))
           x == s[Len(s)]
       IN IF \E i \in 1..Len(r) : r[i] = x THEN r ELSE Append(r, x)

Range(s) == {s[i] : i \in 1..Len(s)}

\* ------------------------------------------------------------ tags/stale
\* git tag | grep '^bbranch-stale-{{branchName}}-{{[0-9]+}}$'
getStaleParentTags(g, branchName) ==
  {t \in g.stale : t.branchName = branchName}

\* execCommand(`git branch --contains <tag>`): the output, or '' when the
\* command fails (the error is caught and not rethrown)
containsQuery(g, t, failed) ==
  IF t \in failed THEN {} ELSE BranchContains(g, t.commit)

\* cleanupStaleParentTags when the contains query fails for the tags in
\* failed: a tag is deleted whenever the output is empty
cleanupStaleParentTagsFailing(g, failed) ==
  [g EXCEPT !.stale = {t \in g.stale : containsQuery(g, t, failed) # {}}]

\* (a sweep that deletes nothing)
cleanupNoStaleParentTags(g) == g

\* sweep: a stale tag stays while `git branch --contains <tag>` prints anything
cleanupStaleParentTags(g) ==
  [g EXCEPT !.stale = {t \in g.stale : BranchContains(g, t.commit) # {}}]

\* execCommand without throwOnError swallows the failure of
\* `git rev-parse --verify refs/heads/<name>` and returns ''
VerifyThrows(g, branchName) == FALSE

cleanupOrphanedStaleTags(g) ==
  [g EXCEPT !.stale = {t \in g.stale : ~VerifyThrows(g, t.branchName)}]

\* ------------------------------------------------- tags/merge-base-master
\* merge-bases of the trunk with every other branch, the trunk tip excepted;
\* the `grep -q "^[* ] $commit$"` filter looks for a branch named like the
\* commit and never matches
MergeBases(g) ==
  {MergeBase(g.par, g.tip[Trunk], g.tip[b]) : b \in Branches \ {Trunk}}
    \ {0, g.tip[Trunk]}

\* (a retag that numbers the tags from 0)
tagMergeBasesFromZero(g, bases) ==
  [g EXCEPT !.mb =
     IF bases = <<>> THEN {[num |-> 0, commit |-> HeadCommit(g)]}
     ELSE {[num |-> i - 1, commit |-> bases[i]] : i \in 1..Len(bases)}]

\* all numbered tags are deleted and recreated from 1 in `sort -u` order;
\* with no merge-base left the loop still runs once on the empty line that
\* echo prints and `git tag -f merge-base-master-1` tags HEAD
tagMergeBases(g, bases) ==
  [g EXCEPT !.mb =
     IF bases = <<>> THEN {[num |-> 1, commit |-> HeadCommit(g)]}
     ELSE {[num |-> i, commit |-> bases[i]] : i \in 1..Len(bases)}]

retagMergeBase(g) == tagMergeBases(g, SortNums(MergeBases(g)))

\* ----------------------------------------------------------- tags/cleanup
cleanupTags(g) == cleanupOrphanedStaleTags(retagMergeBase(g))

MaxNum(S) == IF S = {} THEN -1 ELSE CHOOSE x \in S : \A y \in S : y <= x

\* (a markStale that tags and never sweeps)
markStaleUnswept(g, commit, branchName, hasDirectChildren) ==
  IF hasDirectChildren
  THEN [g EXCEPT !.stale = @ \cup
          {[branchName |-> branchName,
            tagNum |-> MaxNum({t.tagNum : t \in getStaleParentTags(g, branchName)}) + 1,
            commit |-> commit]}]
  ELSE g

\* (a markStale that numbers every tag 0)
markStaleFirst(g, commit, branchName, hasDirectChildren) ==
  cleanupTags(cleanupStaleParentTags(
    IF hasDirectChildren
    THEN [g EXCEPT !.stale = @ \cup
            {[branchName |-> branchName, tagNum |-> 0, commit |-> commit]}]
    ELSE g))

\* (a markStale that tags whatever hasDirectChildren says)
markStaleAlways(g, commit, branchName, hasDirectChildren) ==
  cleanupTags(cleanupStaleParentTags(
    [g EXCEPT !.stale = @ \cup
       {[branchName |-> branchName,
         tagNum |-> MaxNum({t.tagNum : t \in getStaleParentTags(g, branchName)}) + 1,
         commit |-> commit]}]))

markStale(g, commit, branchName, hasDirectChildren) ==
  LET lastStaleTagNum ==
        MaxNum({t.tagNum : t \in getStaleParentTags(g, branchName)})
      tagged ==
        IF hasDirectChildren
        THEN [g EXCEPT !.stale = @ \cup
               {[branchName |-> branchName, tagNum |-> lastStaleTagNum + 1,
                 commit |-> commit]}]
        ELSE g
  IN cleanupTags(cleanupStaleParentTags(tagged))

\* -------------------------------------------------------- tree-nav/parent
\* the tag `git tag --points-at` lists first: tags print in name order
FirstStaleTag(S) ==
  CHOOSE t \in S : \A u \in S :
     \/ NameRank(t.branchName) < NameRank(u.branchName)
     \/ t.branchName = u.branchName /\ t.tagNum <= u.tagNum

Diverged ==
  [branchName |-> {}, stale |-> TRUE, slow |-> TRUE, diverged |-> TRUE,
   root |-> TRUE]

RECURSIVE resolveFrom(_, _)
\* the part of getParentBranch after cleanupTags(): g2 is the repository
\* with the tags refreshed
resolveTagged(g2, p) ==
  LET \* `git tag --points-at` without an object lists the tags of HEAD
      q == IF p = 0 THEN HeadCommit(g2) ELSE p
      staleTag == {t \in g2.stale : t.commit = q}
      mergeBaseParent == {t \in g2.mb : t.commit = q}
  IN IF staleTag # {}
     THEN [branchName |-> {FirstStaleTag(staleTag).branchName},
           stale |-> TRUE, slow |-> TRUE, diverged |-> FALSE, root |-> p = 0]
     ELSE IF mergeBaseParent # {}
     THEN [branchName |-> {Trunk}, stale |-> TRUE, slow |-> TRUE,
           diverged |-> FALSE, root |-> p = 0]
     ELSE IF p = 0 THEN Diverged
     ELSE [resolveFrom(g2, g2.par[p]) EXCEPT !.slow = TRUE]

\* getParentBranch from the first-parent commit p of its subject on.
\* branchName is the set of lines the name was read from (one name when it
\* has one element); slow tells that cleanupTags ran, root that the walk
\* passed the root commit (`git rev-parse <root>^` fails and the commit is
\* the empty string), diverged that the recursion then never ends.
resolveFrom(g, p) ==
  IF PointsAt(g, p) # {}
  THEN [branchName |-> PointsAt(g, p), stale |-> FALSE, slow |-> FALSE,
        diverged |-> FALSE, root |-> FALSE]
  ELSE resolveTagged(cleanupTags(g), p)

getParentBranch(g, branchNameOrCommit) ==
  resolveFrom(g, FirstParent(g, branchNameOrCommit))

\* the repository a resolution leaves behind
AfterResolve(g, r) == IF r.slow THEN cleanupTags(g) ELSE g

\* ------------------------------------------------------ tree-nav/children
\* git rev-parse <ref>
RevParse(g, ref) ==
  IF ref \in Branches THEN g.tip[ref]
  ELSE IF ref = "HEAD" THEN HeadCommit(g)
  ELSE 0

formatBranchContains(containsOutput, branchName) ==
  containsOutput \ {branchName, "main", "master"}

RECURSIVE Flatten(_)
Flatten(ss) == IF ss = <<>> THEN <<>> ELSE Head(ss) \o Flatten(Tail(ss))

\* the candidates: branches containing the tip, then those containing the
\* commit of a stale tag of the branch and, for the trunk, of a merge-base
\* tag (the tags as they are stored when the call starts)
possibleChildren(g, parentBranchName) ==
  LET parentCommit == RevParse(g, parentBranchName)
      possibleCurrentChildren ==
        SortNames(formatBranchContains(BranchContains(g, parentCommit),
                                       parentBranchName))
      staleNums ==
        SortNums({t.tagNum : t \in getStaleParentTags(g, parentBranchName)})
      staleCommitOf(n) ==
        (CHOOSE t \in getStaleParentTags(g, parentBranchName) : t.tagNum = n).commit
      fromStale ==
        Flatten([i \in 1..Len(staleNums) |->
          SortNames(formatBranchContains(
            BranchContains(g, staleCommitOf(staleNums[i])), parentBranchName))])
      mbNums == SortNums({t.num : t \in g.mb})
      mbCommitOf(n) == (CHOOSE t \in g.mb : t.num = n).commit
      fromMergeBase ==
        IF parentBranchName \in {"master", "main"}
        THEN Flatten([i \in 1..Len(mbNums) |->
               SortNames(formatBranchContains(
                 BranchContains(g, mbCommitOf(mbNums[i])), parentBranchName))])
        ELSE <<>>
  IN Dedup(possibleCurrentChildren \o fromStale \o fromMergeBase)

ChildRec(b, o) == [branchName |-> b, orphaned |-> o]

\* the resolution of every candidate, as pairs <<candidate, resolution>>
resolveAll(g, candidates) == {<<c, getParentBranch(g, c)>> : c \in Range(candidates)}
resolutionOf(resolutions, c) == (CHOOSE r \in resolutions : r[1] = c)[2]

\* the Branch[] findChildren returns, the repository it leaves, and whether
\* a resolution never returned
Found(g, currentChildren, orphanedChildren, resolutions) ==
  [children |->
     [i \in 1..Len(currentChildren) |-> ChildRec(currentChildren[i], FALSE)]
     \o [i \in 1..Len(orphanedChildren) |-> ChildRec(orphanedChildren[i], TRUE)],
   repo |-> IF \E r \in resolutions : r[2].slow THEN cleanupTags(g) ELSE g,
   hung |-> \E r \in resolutions : r[2].diverged]

\* a candidate is kept when the name its parent resolves to is the branch
\* asked for
keepByName(g, parentBranchName, allPossibleChildren, resolutions) ==
  LET parentOfChild(c) == resolutionOf(resolutions, c)
      kept(c) == parentOfChild(c).branchName = {parentBranchName}
  IN Found(g,
           SelectSeq(allPossibleChildren,
                     LAMBDA c : kept(c) /\ ~parentOfChild(c).stale),
           SelectSeq(allPossibleChildren,
                     LAMBDA c : kept(c) /\ parentOfChild(c).stale),
           resolutions)

\* findChildren of tree-nav/children.ts
findChildren(g, parentBranchName) ==
  keepByName(g, parentBranchName, possibleChildren(g, parentBranchName),
             resolveAll(g, possibleChildren(g, parentBranchName)))

\* a candidate is kept by its first-parent commit, which must be the tip or
\* the commit of a stale tag of the branch; the cache holds, per first-parent
\* commit, the resolution of the first candidate that has it
keepByCommit(g, parentBranchName, allPossibleChildren, resolutions) ==
  LET parentCommit == RevParse(g, parentBranchName)
      staleCommits == {t.commit : t \in getStaleParentTags(g, parentBranchName)}
      immediateParentCommit(c) == FirstParent(g, c)
      cached(c) ==
        resolutionOf(resolutions,
          SelectSeq(allPossibleChildren,
            LAMBDA d : immediateParentCommit(d) = immediateParentCommit(c))[1])
      matchesCurrentCommit(c) == immediateParentCommit(c) = parentCommit
      matchesStaleCommit(c) == immediateParentCommit(c) \in staleCommits
  IN Found(g,
           SelectSeq(allPossibleChildren,
                     LAMBDA c : matchesCurrentCommit(c) /\ ~cached(c).stale),
           SelectSeq(allPossibleChildren,
                     LAMBDA c : \/ matchesCurrentCommit(c) /\ cached(c).stale
                                \/ ~matchesCurrentCommit(c) /\ matchesStaleCommit(c)),
           resolutions)

\* the later findChildren (with the per-commit cache)
findChildrenCached(g, parentBranchName) ==
  keepByCommit(g, parentBranchName, possibleChildren(g, parentBranchName),
               resolveAll(g, possibleChildren(g, parentBranchName)))

ChildNames(children) == {children[i].branchName : i \in 1..Len(children)}

RECURSIVE Descendants(_, _, _)
Grown(g, S, fuel, kids) ==
  IF fuel = 0 \/ kids \subseteq S THEN S
  ELSE Descendants(g, S \cup kids, fuel - 1)

Descendants(g, S, fuel) ==
  Grown(g, S, fuel, UNION {ChildNames(findChildren(g, b).children) : b \in S})

\* branch R and the branches below it in the branch tree
Subtree(g, R) == Descendants(g, {R}, Cardinality(Branches))

hasNonOrphaned(children) ==
  \E i \in 1..Len(children) : ~children[i].orphaned

\* --------------------------------------------------------- commands/rebase
IsName(S) == Cardinality(S) = 1
NameOf(S) == IF S = {} THEN "" ELSE CHOOSE x \in S : TRUE

gitRebaseAbort(g) ==
  IF g.reb = NoRebase THEN g
  ELSE [g EXCEPT !.head = g.reb.from, !.at = 0, !.reb = NoRebase]

\* git rebase --continue, the stopped commit applied on the onto commit
gitRebaseContinue(g) ==
  [g EXCEPT !.par = Append(@, g.reb.onto), !.n = g.n + 1,
            !.tip[g.reb.from] = g.n + 1,
            !.head = g.reb.from, !.at = 0, !.reb = NoRebase]

Result(g, outcome) == [repo |-> g, outcome |-> outcome]

\* (a rebase that also sets the branches on the old tip to the new commit)
gitRebaseWithRefs(g, from, onto, outcome) ==
  IF outcome # "done" THEN g
  ELSE [g EXCEPT !.par = Append(@, onto), !.n = g.n + 1,
                 !.tip = [b \in Branches |->
                            IF b = from \/ g.par[g.tip[b]] = g.tip[from]
                            THEN g.n + 1 ELSE g.tip[b]],
                 !.head = from, !.at = 0]

\* what `git rebase --onto <onto> <from>^ <from>` leaves: the one commit of
\* the branch is applied on the onto commit, unless the onto commit already
\* holds it, and then the branch is set to the onto commit
gitRebase(g, from, onto, outcome) ==
  IF outcome = "failed" THEN g
  ELSE IF outcome = "conflict"
  THEN [g EXCEPT !.head = "HEAD", !.at = onto,
                 !.reb = [from |-> from, onto |-> onto]]
  ELSE IF g.tip[from] \in Anc(g.par, onto)
  THEN [g EXCEPT !.tip[from] = onto, !.head = from, !.at = 0]
  ELSE [g EXCEPT !.par = Append(@, onto), !.n = g.n + 1,
                 !.tip[from] = g.n + 1, !.head = from, !.at = 0]

\* rebaseImpl from the rebase itself on: found is what findChildren(from)
\* returned.  A branch already on the target is checked out and nothing
\* moves; otherwise the old tip is marked stale, also when git failed or
\* stopped.
rebaseOnto(from, fromCommit, to, conflict, found) ==
  LET onto == IF IsName(to) THEN RevParse(found.repo, NameOf(to)) ELSE 0
      outcome == IF onto = 0 \/ found.repo.reb # NoRebase THEN "failed"
                 ELSE IF conflict /\ fromCommit \notin Anc(found.repo.par, onto)
                 THEN "conflict" ELSE "done"
  IN IF outcome # "failed" /\ onto \in {found.repo.par[fromCommit], fromCommit}
     THEN Result([found.repo EXCEPT !.head = from, !.at = 0], "done")
     ELSE Result(markStale(gitRebase(found.repo, from, onto, outcome),
                           fromCommit, from, hasNonOrphaned(found.children)),
                 outcome)

\* rebaseImpl({from, to, flag, silent}); to is the set of lines of the target
\* name ({} for none), confirm the answer to the prompt, conflict whether
\* git stops on a conflict.  Outcomes: "done" (returned), "cancelled",
\* "conflict" and "failed" (process.exit), "threw" (the exception leaves
\* rebaseImpl).
rebaseImpl(g, from, to, flag, silent, confirm, conflict) ==
  IF flag = "abort"
  THEN Result(cleanupStaleParentTags(gitRebaseAbort(g)), "done")
  ELSE IF to = {} /\ flag # "continue"
  THEN Result(g, "done")
  ELSE IF flag = "continue"
  THEN IF g.reb = NoRebase \/ conflict
       THEN Result(g, "threw")
       ELSE Result(cleanupStaleParentTags(gitRebaseContinue(g)), "done")
  ELSE IF ~silent /\ ~confirm
  THEN Result(g, "cancelled")
  ELSE rebaseOnto(from, RevParse(g, from), to, conflict, findChildren(g, from))

\* ------------------------------------------------------ tags/evolve-status
\* the tags in `git tag --list` order
FirstEvolveTag(S) ==
  CHOOSE t \in S : \A u \in S :
     \/ Pos(ScopeOrder, t.scope) < Pos(ScopeOrder, u.scope)
     \/ t.scope = u.scope /\ t.step <= u.step

NoStatus == [step |-> -1, scope |-> ""]

getEvolveStatus(g) ==
  IF g.evo = {} THEN NoStatus
  ELSE [step |-> CHOOSE n \in {t.step : t \in g.evo} :
                   \A t \in g.evo : n <= t.step,
        scope |-> FirstEvolveTag(g.evo).scope]

clearAllEvolveTags(g) == [g EXCEPT !.evo = {}]

\* git tag bbranch-evolve-{{scope}}-{{step}} <ref>: fails when the name is taken
gitTagEvolve(g, step, scope, ref) ==
  IF \E t \in g.evo : t.scope = scope /\ t.step = step THEN g
  ELSE [g EXCEPT !.evo = @ \cup
          {[scope |-> scope, step |-> step, commit |-> RevParse(g, ref)]}]

\* git branch --points-at bbranch-evolve-{{scope}}-{{step}}
branchAtEvolveTag(g, step, scope) ==
  LET ts == {t \in g.evo : t.scope = scope /\ t.step = step}
  IN IF ts = {} THEN {} ELSE PointsAt(g, (CHOOSE t \in ts : TRUE).commit)

\* (every child appended, whatever the scope)
EnqueuedAll(found, scope, queue) ==
  [queue |-> queue \o
     [i \in 1..Len(found.children) |-> found.children[i].branchName],
   repo |-> found.repo]

\* the children of the branch that qualify for the scope, appended
Enqueued(found, scope, queue) ==
  [queue |-> queue \o
     [i \in 1..Len(SelectSeq(found.children,
                     LAMBDA child : ~(scope = "directs" /\ child.orphaned))) |->
        SelectSeq(found.children,
          LAMBDA child : ~(scope = "directs" /\ child.orphaned))[i].branchName],
   repo |-> found.repo]

enqueueQualifiedEvolveChildren(g, branch, scope, queue) ==
  Enqueued(findChildren(g, branch), scope, queue)

QueueFuel == 8    \* tags one tagging pass may write

RECURSIVE tagQueue(_, _, _)
\* the while loop of tagEvolveBranches: e holds the queue and the repository
tagQueue(e, scope, count) ==
  IF e.queue = <<>> \/ count >= QueueFuel THEN e.repo
  ELSE tagQueue(enqueueQualifiedEvolveChildren(
                  gitTagEvolve(e.repo, count, scope, Head(e.queue)),
                  Head(e.queue), scope, Tail(e.queue)),
                scope, count + 1)

\* tagEvolveBranches after the first queue e is built
tagFrom(e, shouldSkipCurrentBranch, scope, confirm) ==
  IF shouldSkipCurrentBranch /\ e.queue # <<>> /\ ~confirm
  THEN Result(e.repo, "declined")
  ELSE Result(tagQueue(e, scope, 0), "tagged")

\* the queue e with the branch put behind its children
Behind(e, branch) == [e EXCEPT !.queue = @ \o <<branch>>]

\* (a tagging pass that queues the children of the branch before the branch)
tagChildrenFirst(g, branch, scope, confirm) ==
  IF getEvolveStatus(g) # NoStatus THEN Result(g, "refused")
  ELSE tagFrom(Behind(enqueueQualifiedEvolveChildren(g, branch, scope, <<>>),
                      branch), FALSE, scope, confirm)

\* (a tagging pass that starts with the branch itself, the trunk included)
tagStartingBranch(g, branch, scope, confirm) ==
  IF getEvolveStatus(g) # NoStatus THEN Result(g, "refused")
  ELSE tagFrom([queue |-> <<branch>>, repo |-> g], FALSE, scope, confirm)

\* tagEvolveBranches; outcome "refused" and "declined" are process.exit
tagEvolveBranches(g, branch, scope, confirm) ==
  IF getEvolveStatus(g) # NoStatus THEN Result(g, "refused")
  ELSE IF branch \in {"master", "main", "HEAD"}
  THEN tagFrom(enqueueQualifiedEvolveChildren(g, branch, scope, <<>>), TRUE,
               scope, confirm)
  ELSE tagFrom([queue |-> <<branch>>, repo |-> g], FALSE, scope, confirm)

\* ------------------------------------------------------- commit identifiers
\* A commit is known to git only through the refs that reach it, so the
\* commits no branch, tag or HEAD reaches are forgotten after each command
\* and the others are numbered by depth and by the first ref above them.
Min(S) == CHOOSE x \in S : \A y \in S : x <= y

RefRanks(g, c) ==
  {Pos(BranchOrder, b) : b \in PointsAt(g, c)}
    \cup (IF g.reb.onto = c THEN {9} ELSE {})
    \cup {10 + 20 * Pos(ScopeOrder, t.scope) + t.step :
            t \in {u \in g.evo : u.commit = c}}
    \cup {100 + 20 * NameRank(t.branchName) + t.tagNum :
            t \in {u \in g.stale : u.commit = c}}
    \cup {300 + t.num : t \in {u \in g.mb : u.commit = c}}

Reachable(g) ==
  UNION {Anc(g.par, c) : c \in {d \in 1..g.n : RefRanks(g, d) # {}}}

\* pairs <<sort key, commit>> of the live commits
Keyed(g, live) ==
  {<<1000 * Cardinality(Anc(g.par, c))
       + Min(UNION {RefRanks(g, d) : d \in {e \in live : c \in Anc(g.par, e)}}),
     c>> : c \in live}

\* pairs <<commit, its new number>>
Ranked(keyed) ==
  {<<p[2], Cardinality({q \in keyed : q[1] <= p[1]})>> : p \in keyed}

Renumbered(g, renum) ==
  LET new(c) == IF \E r \in renum : r[1] = c
                THEN (CHOOSE r \in renum : r[1] = c)[2] ELSE 0
      old(k) == (CHOOSE r \in renum : r[2] = k)[1]
  IN [par |-> [k \in 1..Cardinality(renum) |-> new(g.par[old(k)])],
      n |-> Cardinality(renum),
      tip |-> [b \in Branches |-> new(g.tip[b])],
      head |-> g.head,
      at |-> new(g.at),
      stale |-> {[t EXCEPT !.commit = new(t.commit)] : t \in g.stale},
      mb |-> {[t EXCEPT !.commit = new(t.commit)] : t \in g.mb},
      evo |-> {[t EXCEPT !.commit = new(t.commit)] : t \in g.evo},
      reb |-> [g.reb EXCEPT !.onto = new(g.reb.onto)]]

Canon(g) == Renumbered(g, Ranked(Keyed(g, Reachable(g))))

Holds(g) ==
  /\ parentOf = g.par
  /\ nCommits = g.n
  /\ tip = g.tip
  /\ head = g.head
  /\ detachedAt = g.at
  /\ staleTags = g.stale
  /\ mbTags = g.mb
  /\ evolveTags = g.evo
  /\ rebasing = g.reb

Install(g) ==
  \E c \in {Canon(g)} :
     /\ parentOf' = c.par
     /\ nCommits' = c.n
     /\ tip' = c.tip
     /\ head' = c.head
     /\ detachedAt' = c.at
     /\ staleTags' = c.stale
     /\ mbTags' = c.mb
     /\ evolveTags' = c.evo
     /\ rebasing' = c.reb

\* the branches whose tip g2 has moved
Moved(g, g2) == {b \in Branches : g2.tip[b] # g.tip[b]}

\* ------------------------------------------------------------------ state
\* what a command that found the repository g and left g2 did: the branches
\* it moved, whether evolve tags existed before it and whether it left them
\* as they were, how many stale tags its branch had before it, and for amend
\* the branches that sat on the old tip
Obs(cmd, branch, scope, outcome, step, g, g2, kids) ==
  [cmd |-> cmd, branch |-> branch, scope |-> scope, outcome |-> outcome,
   step |-> step, moved |-> Moved(g, g2), hadEvo |-> g.evo # {},
   sameEvo |-> g2.evo = g.evo, reb |-> g.reb,
   hadStale |-> Cardinality(getStaleParentTags(g, branch)), kids |-> kids]
NoObs ==
  [cmd |-> "none", branch |-> "", scope |-> "", outcome |-> "", step |-> 0,
   moved |-> {}, hadEvo |-> FALSE, sameEvo |-> TRUE, reb |-> NoRebase,
   hadStale |-> 0, kids |-> {}]
\* what an evolve ended between two steps would have left had it run on:
\* the step it had reached and the branch tree of the uninterrupted run
NoExpect == [step |-> -1, shape |-> <<>>]
NoEv == [cur |-> {}, scope |-> "", flag |-> "none", step |-> 0, target |-> {},
         initial |-> "", plan |-> <<>>, orphans |-> {}, kids |-> {},
         moved |-> {}, restore |-> "", started |-> "", resumed |-> FALSE,
         done |-> <<>>,
         expect |-> NoExpect]

\* a trunk of two commits and one commit per feature branch: A on the trunk
\* tip or on the commit before it, B and C on the trunk tip or on an earlier
\* branch
TreeInit(pa, pb, pcm) ==
  [par |-> <<0, 1, pa, pb, pcm>>,
   n |-> 5,
   tip |-> [b \in Branches |->
              IF b = Trunk THEN 2 ELSE IF b = "A" THEN 3
              ELSE IF b = "B" THEN 4 ELSE 5],
   head |-> Trunk, at |-> 0, stale |-> {}, mb |-> {}, evo |-> {},
   reb |-> NoRebase]

Init ==
  /\ \E pa \in {1, 2}, pb \in {2, 3}, pcm \in {2, 3, 4} :
       Holds(Canon(TreeInit(pa, pb, pcm)))
  /\ cmds = 0
  /\ pc = "idle"
  /\ ev = NoEv
  /\ obs = NoObs

Idle == pc = "idle" /\ rebasing = NoRebase

\* ---------------------------------------------------------------- actions
\* Each command is run on a branch b: `git checkout b`, then the command.
\* While an evolve is unfinished (evolve tags exist) the user runs only
\* rebase --continue/--abort, evolve and ls.
checkout(g, b) == [g EXCEPT !.head = b]

\* (an amend that leaves no stale tag)
amendUnmarked(g) ==
  [g EXCEPT !.par = Append(@, g.par[HeadCommit(g)]), !.n = g.n + 1,
            !.tip[g.head] = g.n + 1]

\* bb amend: the tip of the current branch is replaced by a new commit on the
\* same parent, then markStale(currentCommit, currentBranch, true)
amendImpl(g) ==
  LET currentCommit == HeadCommit(g)
      currentBranch == g.head
      amended == [g EXCEPT !.par = Append(@, g.par[currentCommit]),
                           !.n = g.n + 1,
                           !.tip[currentBranch] = g.n + 1]
  IN markStale(amended, currentCommit, currentBranch, TRUE)

\* the branches whose first-parent commit is the tip of branch b
OnTip(g, b) == {c \in Branches \ {b, Trunk} : g.par[g.tip[c]] = g.tip[b]}

Amend(b) ==
  /\ Idle
  /\ evolveTags = {}
  /\ cmds < MaxCommands
  /\ \E g \in {amendImpl(checkout(Repo, b))} :
        /\ Install(g)
        /\ obs' = Obs("amend", b, "", "done", 0, Repo, g, OnTip(Repo, b))
  /\ ev' = NoEv
  /\ cmds' = cmds + 1
  /\ UNCHANGED pc

\* the branches the user rebases branch b onto: never b itself, a branch
\* below it in the branch tree or a branch that holds its commit
Targets(g, b) ==
  {to \in Branches \ Subtree(g, b) : g.tip[b] \notin Anc(g.par, g.tip[to])}

\* bb rebase <to> on branch b (never the trunk)
Rebase(b, to, confirm, conflict) ==
  /\ Idle
  /\ evolveTags = {}
  /\ b # Trunk
  /\ to \in Targets(Repo, b)
  /\ cmds < MaxCommands
  /\ \E r \in {rebaseImpl(checkout(Repo, b), b, {to}, "none", FALSE, confirm,
                          conflict)} :
        Install(r.repo)
  /\ obs' = NoObs
  /\ ev' = NoEv
  /\ cmds' = cmds + 1
  /\ UNCHANGED pc

\* bb rebase --continue | --abort while a rebase is stopped
RebaseResume(flag, conflict) ==
  /\ pc = "idle"
  /\ rebasing # NoRebase
  /\ cmds < MaxCommands
  /\ \E r \in {rebaseImpl(Repo, "HEAD", {}, flag, FALSE, TRUE, conflict)} :
        Install(r.repo)
  /\ obs' = NoObs
  /\ ev' = NoEv
  /\ cmds' = cmds + 1
  /\ UNCHANGED pc

\* bb ls tree: cleanupTags(); cleanupStaleParentTags(); the rest only reads
ListTree ==
  /\ Idle
  /\ cmds < MaxCommands
  /\ Install(cleanupStaleParentTags(cleanupTags(Repo)))
  /\ obs' = NoObs
  /\ ev' = NoEv
  /\ cmds' = cmds + 1
  /\ UNCHANGED pc

\* ---------------------------------------------------------- commands/evolve
\* evolveSelfImpl once the parent of the current branch is resolved
rebaseOnParent(g, parent, flag, confirm, conflict) ==
  rebaseImpl(AfterResolve(g, parent), g.head, parent.branchName, flag, FALSE,
             confirm, conflict)

\* evolveSelfImpl: rebase the current branch onto its resolved parent
evolveSelfImpl(g, flag, confirm, conflict) ==
  rebaseOnParent(g, getParentBranch(g, g.head), flag, confirm, conflict)

\* what follows evolveSelfImpl in the command: clearAllEvolveTags, unless the
\* process exited inside the rebase
thenClear(r) ==
  IF r.outcome = "done" THEN Result(clearAllEvolveTags(r.repo), "done") ELSE r

\* bb evolve --scope self
evolveSelf(g, confirm, conflict) ==
  thenClear(evolveSelfImpl(g, "none", confirm, conflict))

EvolveSelf(b, confirm, conflict) ==
  /\ Idle
  /\ cmds < MaxCommands
  /\ \E g \in {checkout(Repo, b)} :
       /\ ~getParentBranch(g, b).diverged
       /\ \E r \in {evolveSelf(g, confirm, conflict)} :
            /\ Install(r.repo)
            /\ obs' = IF r.outcome = "cancelled" THEN NoObs
                      ELSE Obs("evolve", b, "self", r.outcome, 0, Repo, r.repo, {})
  /\ ev' = NoEv
  /\ cmds' = cmds + 1
  /\ UNCHANGED pc

Orphaned(g) == {b \in Branches \ {Trunk} : getParentBranch(g, b).stale}

\* the branches the evolve tags point at, by step
Plan(g, scope) ==
  [i \in 1..Cardinality({t \in g.evo : t.scope = scope}) |->
     branchAtEvolveTag(g, i - 1, scope)]

\* evolveImpl after a successful tagging: tagged is the repository with the
\* evolve tags, parent the resolved parent of HEAD
evolveTagged(g, scope, tagged, parent) ==
  [repo |-> IF g.head \in {"master", "main", "HEAD"}
            THEN AfterResolve(tagged, parent) ELSE tagged,
   pc |-> "chain",
   ev |-> [cur |-> {g.head}, scope |-> scope, flag |-> "none", step |-> 0,
           target |-> IF g.head \in {"master", "main", "HEAD"}
                      THEN parent.branchName ELSE {},
           initial |-> g.head,
           plan |-> Plan(tagged, scope),
           orphans |-> Orphaned(g),
           kids |-> ChildNames(findChildren(g, g.head).children),
           moved |-> {}, restore |-> g.head, started |-> scope,
           resumed |-> FALSE, done |-> <<>>,
           expect |-> NoExpect],
   hung |-> g.head \in {"master", "main", "HEAD"} /\ parent.diverged,
   obs |-> NoObs]

\* evolveImpl after tagEvolveBranches returned or exited with r
evolveAfterTags(g, scope, r) ==
  IF r.outcome # "tagged"
  THEN [repo |-> r.repo, pc |-> "idle", ev |-> NoEv, hung |-> FALSE,
        obs |-> Obs("evolve", g.head, scope, r.outcome, 0, g, r.repo, {})]
  ELSE evolveTagged(g, scope, r.repo, getParentBranch(r.repo, "HEAD"))

\* evolveImpl for --scope directs|full up to the first call of evolveChain:
\* what it leaves in the repository, where the process stands, its locals
evolveImpl(g, scope, confirm) ==
  evolveAfterTags(g, scope, tagEvolveBranches(g, g.head, scope, confirm))

\* bb evolve --scope directs|full on branch b; with a rebase stopped there
\* is no checkout and the branch is "HEAD"
EvolveStart(b, scope, confirm) ==
  /\ pc = "idle"
  /\ cmds < MaxCommands
  /\ rebasing = NoRebase \/ evolveTags # {}
  /\ rebasing # NoRebase => b = Trunk
  /\ scope \in {"directs", "full"}
  /\ \E r \in {evolveImpl(IF rebasing = NoRebase THEN checkout(Repo, b) ELSE Repo,
                          scope, confirm)} :
        /\ ~r.hung
        /\ Install(r.repo)
        /\ pc' = r.pc
        /\ ev' = r.ev
        /\ obs' = r.obs
  /\ cmds' = cmds + 1

\* the rebase of one call of evolveChain: parent is the resolved parent of
\* currentBranch, used unless the step continues a rebase or has an explicit
\* target
chainRebase(g0, e, currentBranch, parent, conflict) ==
  IF e.flag = "continue"
  THEN rebaseImpl(g0, currentBranch, {}, e.flag, TRUE, TRUE, conflict)
  ELSE IF e.target # {} /\ currentBranch \notin {"master", "main", "HEAD"}
  THEN rebaseImpl(g0, currentBranch, e.target, e.flag, TRUE, TRUE, conflict)
  ELSE rebaseImpl(AfterResolve(g0, parent), currentBranch, parent.branchName,
                  e.flag, TRUE, TRUE, conflict)

\* git tag -d bbranch-evolve-{{scope}}-{{step}}
untagStep(r, scope, step) ==
  [r.repo EXCEPT !.evo = {t \in @ : ~(t.scope = scope /\ t.step = step)}]

\* (a chain that deletes the tag of the step although the rebase stopped)
chainHaltedUntagged(g0, e, r) ==
  [repo |-> untagStep(r, e.scope, e.step), pc |-> "idle",
   ev |-> [e EXCEPT !.cur = {}, !.moved = @ \cup Moved(g0, r.repo)],
   obs |-> Obs("evolve", NameOf(e.cur), e.scope, r.outcome, e.step, g0, r.repo,
               {})]

\* the process ended inside rebaseImpl (process.exit): nothing else of
\* evolveChain runs, the tag of the step stays
chainHalted(g0, e, r) ==
  [repo |-> r.repo, pc |-> "idle",
   ev |-> [e EXCEPT !.cur = {}, !.moved = @ \cup Moved(g0, r.repo)],
   obs |-> Obs("evolve", NameOf(e.cur), e.scope, r.outcome, e.step, g0, r.repo,
               {})]

\* git checkout ${initialBranch}; `git checkout HEAD` changes nothing
restoreBranch(g, initialBranch) ==
  IF initialBranch \in Branches THEN [g EXCEPT !.head = initialBranch, !.at = 0]
  ELSE g

\* evolveChain after the rebase returned or exited with r: drop the tag of
\* the step, look up the next branch; the recursive call is the next step
chainAfter(g0, e, step, r, untagged) ==
  IF r.outcome # "done"
  THEN chainHalted(g0, e, r)
  ELSE IF branchAtEvolveTag(untagged, step, e.scope) = {}
  THEN \* queue exhausted: clear the tags, `git checkout ${initialBranch}`
       [repo |-> restoreBranch(clearAllEvolveTags(untagged), e.restore),
        pc |-> "idle",
        ev |-> [e EXCEPT !.cur = {}, !.step = step,
                         !.moved = @ \cup Moved(g0, r.repo),
                         !.done = IF step = e.step THEN @ ELSE Append(@, e.cur)],
        obs |-> Obs("evolve", e.initial, e.scope, "complete", step, g0,
                    clearAllEvolveTags(untagged), {})]
  ELSE [repo |-> untagged, pc |-> "chain",
        ev |-> [e EXCEPT !.cur = branchAtEvolveTag(untagged, step, e.scope),
                         !.flag = "none", !.step = step,
                         !.moved = @ \cup Moved(g0, r.repo),
                         !.done = IF step = e.step THEN @ ELSE Append(@, e.cur)],
        obs |-> NoObs]

chainRebased(g0, e, r) == chainAfter(g0, e, e.step + 1, r, untagStep(r, e.scope, e.step))

\* one call of evolveChain with the locals e
evolveChain(g0, e, conflict) ==
  IF e.cur # {} /\ e.cur \subseteq {"master", "main", "HEAD"}
  THEN chainAfter(g0, e, e.step, Result(g0, "done"), g0)
  ELSE IF ~IsName(e.cur)
  THEN chainRebased(g0, e, Result(g0, "failed"))
  ELSE chainRebased(g0, e,
         chainRebase(g0, e, NameOf(e.cur), getParentBranch(g0, NameOf(e.cur)),
                     conflict))

\* the branch tree up to the names of commits: per branch the length of its
\* history and the branches whose tips it holds
Shape(g) ==
  [b \in Branches |->
     <<Cardinality(Anc(g.par, g.tip[b])),
       {c \in Branches : g.tip[c] \in Anc(g.par, g.tip[b])}>>]

RECURSIVE RunChain(_, _, _)
\* the calls of evolveChain from the locals e on, none stopping on a conflict
Ran(r, fuel) ==
  IF r.pc = "idle" \/ fuel = 0 THEN r.repo ELSE RunChain(r.repo, r.ev, fuel - 1)

RunChain(g, e, fuel) == Ran(evolveChain(g, e, FALSE), fuel)

EvolveChainStep(conflict) ==
  /\ pc = "chain"
  /\ ev.cur \subseteq {"master", "main", "HEAD"} => ~conflict
  /\ \E r \in {evolveChain(Repo, ev, conflict)} :
        /\ Install(r.repo)
        /\ pc' = r.pc
        /\ ev' = r.ev
        /\ obs' = r.obs
  /\ UNCHANGED cmds

\* the process is ended between two calls of evolveChain, after the tag of a
\* step was deleted and before the rebase of the next step
Terminate ==
  /\ pc = "chain"
  /\ ev.step >= 1
  /\ ~ev.resumed
  /\ pc' = "idle"
  /\ \E g \in {RunChain(Repo, ev, QueueFuel)} :
        ev' = [ev EXCEPT !.cur = {}, !.done = <<>>,
                         !.expect = [step |-> ev.step, shape |-> Shape(g)]]
  /\ obs' = Obs("evolve", ev.initial, ev.scope, "terminated", ev.step, Repo, Repo, {})
  /\ UNCHANGED <<parentOf, nCommits, tip, head, detachedAt, staleTags, mbTags,
                 evolveTags, rebasing, cmds>>

\* evolveImpl with --continue while evolve tags exist (scope directs|full):
\* the locals of the first call of evolveChain; there is no explicit target
\* and initialBranch is what HEAD is now
evolveContinue(g, e, scope, status) ==
  [e EXCEPT !.cur = branchAtEvolveTag(g, status.step, status.scope),
            !.scope = scope,
            !.flag = IF g.reb # NoRebase THEN "continue" ELSE "none",
            !.step = status.step,
            !.target = {},
            !.restore = g.head,
            !.resumed = TRUE]

\* bb evolve --continue [--scope directs|full] (full when no scope is given)
EvolveContinue(scope) ==
  /\ pc = "idle"
  /\ evolveTags # {}
  /\ cmds < MaxCommands
  /\ scope \in {"directs", "full"}
  /\ pc' = "chain"
  /\ ev' = evolveContinue(Repo, ev, scope, getEvolveStatus(Repo))
  /\ obs' = NoObs
  /\ cmds' = cmds + 1
  /\ UNCHANGED <<parentOf, nCommits, tip, head, detachedAt, staleTags, mbTags,
                 evolveTags, rebasing>>

\* (an abort that ends the stopped rebase and keeps the evolve tags)
evolveAbortTagged(g) == evolveSelfImpl(g, "abort", TRUE, FALSE)

\* evolveImpl with --abort: clearAllEvolveTags(), then evolveSelfImpl, whose
\* rebaseImpl runs `git rebase --abort` and the sweep
evolveAbort(g) == evolveSelfImpl(clearAllEvolveTags(g), "abort", TRUE, FALSE)

\* bb evolve --abort while an evolve or a rebase is unfinished
EvolveAbort ==
  /\ pc = "idle"
  /\ evolveTags # {} \/ rebasing # NoRebase
  /\ cmds < MaxCommands
  /\ ~getParentBranch(Repo, head).diverged
  /\ \E r \in {evolveAbort(Repo)} :
        /\ Install(r.repo)
        /\ obs' = Obs("abort", head, "", r.outcome, ev.step, Repo, r.repo, {})
  /\ ev' = [ev EXCEPT !.cur = {}]
  /\ cmds' = cmds + 1
  /\ UNCHANGED pc

Next ==
  \/ \E b \in Branches : Amend(b)
  \/ \E b \in Feature : \E to \in Targets(Repo, b) :
       \E confirm \in BOOLEAN : \E conflict \in {FALSE, confirm} :
         Rebase(b, to, confirm, conflict)
  \/ \E flag \in {"continue", "abort"}, conflict \in BOOLEAN :
       RebaseResume(flag, conflict)
  \/ ListTree
  \/ \E b \in Branches, confirm \in BOOLEAN : \E conflict \in {FALSE, confirm} :
       EvolveSelf(b, confirm, conflict)
  \/ \E b \in Branches, scope \in {"directs", "full"} :
       \E confirm \in {TRUE, b # Trunk} :
         EvolveStart(b, scope, confirm)
  \/ \E conflict \in BOOLEAN : EvolveChainStep(conflict)

Spec == Init /\ [][Next]_vars

\* the commands with `evolve --continue`, `evolve --abort` and the end of the
\* process between two steps, on a stack of branches: A on the trunk tip or
\* on the commit before it, B on A, C on B or on the trunk tip
NextResume ==
  \/ Next
  \/ Terminate
  \/ \E scope \in {"directs", "full"} : EvolveContinue(scope)
  \/ EvolveAbort

InitResume ==
  /\ \E pa \in {1, 2}, pcm \in {2, 4} : Holds(Canon(TreeInit(pa, 3, pcm)))
  /\ cmds = 0
  /\ pc = "idle"
  /\ ev = NoEv
  /\ obs = NoObs

SpecResume == InitResume /\ [][NextResume]_vars

\* a branch just created has the tip of the branch it was created on: B on
\* the tip of A, and C on that tip or on the trunk
TreeShared(pcm) ==
  [par |-> <<0, 1, 2, pcm>>,
   n |-> 4,
   tip |-> [b \in Branches |->
              IF b = Trunk THEN 2 ELSE IF b = "C" THEN 4 ELSE 3],
   head |-> Trunk, at |-> 0, stale |-> {}, mb |-> {}, evo |-> {},
   reb |-> NoRebase]

InitShared ==
  /\ \E pcm \in {2, 3} : Holds(Canon(TreeShared(pcm)))
  /\ cmds = 0
  /\ pc = "idle"
  /\ ev = NoEv
  /\ obs = NoObs

SpecShared == InitShared /\ [][Next]_vars

\* a trunk of three commits with A forked from its first commit, B from its
\* second, and C on the trunk tip or on A: the trunk has two merge-bases
TreeTrunk(pcm) ==
  [par |-> <<0, 1, 2, 1, 2, pcm>>,
   n |-> 6,
   tip |-> [b \in Branches |->
              IF b = Trunk THEN 3 ELSE IF b = "A" THEN 4
              ELSE IF b = "B" THEN 5 ELSE 6],
   head |-> Trunk, at |-> 0, stale |-> {}, mb |-> {}, evo |-> {},
   reb |-> NoRebase]

InitTrunk ==
  /\ \E pcm \in {3, 4} : Holds(Canon(TreeTrunk(pcm)))
  /\ cmds = 0
  /\ pc = "idle"
  /\ ev = NoEv
  /\ obs = NoObs

SpecTrunk == InitTrunk /\ [][Next]_vars

\* ------------------------------------------------------------ tag codec
\* Tag and branch names as sequences of characters.
Digits == <<"0", "1", "2", "3", "4", "5", "6", "7", "8", "9">>
IsDigit(c) == \E k \in 1..10 : Digits[k] = c

RECURSIVE NumStr(_)
\* `${n}` for a non-negative integer n
NumStr(n) ==
  IF n < 10 THEN <<Digits[n + 1]>>
  ELSE Append(NumStr(n \div 10), Digits[(n % 10) + 1])

NaN == -1
RECURSIVE DigitsValue(_, _)
DigitsValue(s, acc) ==
  IF s = <<>> \/ ~IsDigit(Head(s)) THEN acc
  ELSE DigitsValue(Tail(s), 10 * acc + Pos(Digits, Head(s)) - 1)

\* (a parseInt that reads one digit)
parseIntDigit(s) ==
  IF s = <<>> \/ ~IsDigit(Head(s)) THEN NaN ELSE Pos(Digits, Head(s)) - 1

\* parseInt(s): the value of the leading digits of s, NaN when s is undefined
\* (the empty sequence here) or does not start with a digit
parseInt(s) ==
  IF s = <<>> \/ ~IsDigit(Head(s)) THEN NaN ELSE DigitsValue(s, 0)

\* the literal lit stands in s at position i
IsAt(s, i, lit) ==
  /\ i + Len(lit) - 1 <= Len(s)
  /\ \A k \in 1..Len(lit) : s[i + k - 1] = lit[k]

MinOf(S) == CHOOSE x \in S : \A y \in S : x <= y
MaxOf(S) == CHOOSE x \in S : \A y \in S : y <= x

\* the lengths D a second group starting at j can take so that post follows:
\* digits only for ([0-9]+), any characters for (.+?)
SecondLens(s, j, post, digits) ==
  {D \in 1..(Len(s) - j + 1) :
     /\ IsAt(s, j + D, post)
     /\ digits => \A k \in j..(j + D - 1) : IsDigit(s[k])}

\* the lengths L a lazy first group starting at j can take so that mid, a
\* second group and post follow
FirstLens(s, j, mid, post, digits) ==
  {L \in 1..(Len(s) - j + 1) :
     /\ IsAt(s, j + L, mid)
     /\ SecondLens(s, j + L + Len(mid), post, digits) # {}}

NoMatch == <<>>

\* tag.match(new RegExp(pre + '(.+?)' + mid + group + post)): the groups of
\* the leftmost match, the first group as short as possible, the second the
\* digits ([0-9]+, as long as possible) or as short as possible ((.+?));
\* NoMatch for null
matchTwo(s, pre, mid, post, digits) ==
  LET starts == {i \in 1..Len(s) :
                   /\ IsAt(s, i, pre)
                   /\ FirstLens(s, i + Len(pre), mid, post, digits) # {}}
  IN IF starts = {} THEN NoMatch
     ELSE LET j == MinOf(starts) + Len(pre)
              L == MinOf(FirstLens(s, j, mid, post, digits))
              k == j + L + Len(mid)
              D == IF digits THEN MaxOf(SecondLens(s, k, post, digits))
                   ELSE MinOf(SecondLens(s, k, post, digits))
          IN <<SubSeq(s, j, j + L - 1), SubSeq(s, k, k + D - 1)>>

\* name.match(new RegExp(pre + '(.+?)' + post)), with a `$` after post when
\* atEnd
matchOne(s, pre, post, atEnd) ==
  LET lens(j) == {L \in 1..(Len(s) - j + 1) :
                    /\ IsAt(s, j + L, post)
                    /\ atEnd => j + L + Len(post) - 1 = Len(s)}
      starts == {i \in 1..Len(s) : IsAt(s, i, pre) /\ lens(i + Len(pre)) # {}}
  IN IF starts = {} THEN NoMatch
     ELSE LET j == MinOf(starts) + Len(pre)
          IN <<SubSeq(s, j, j + MinOf(lens(j)) - 1)>>

\* the group of a match, undefined (the empty sequence) from `?? []`
Group(m, k) == IF m = NoMatch THEN <<>> ELSE m[k]

StalePrefix == <<"b", "b", "r", "a", "n", "c", "h", "-", "s", "t", "a", "l", "e", "-", "{", "{">>
EvolvePrefix == <<"b", "b", "r", "a", "n", "c", "h", "-", "e", "v", "o", "l", "v", "e", "-", "{", "{">>
SplitPrefix == <<"b", "b", "r", "a", "n", "c", "h", "-", "s", "p", "l", "i", "t", "-", "{", "{">>
SplitRootPrefix == <<"s", "p", "l", "i", "t", "-", "r", "o", "o", "t", "-", "-">>
Separator == <<"}", "}", "-", "{", "{">>
Closing == <<"}", "}">>

makeStaleParentTag(branchName, tagNum) ==
  StalePrefix \o branchName \o Separator \o tagNum \o Closing

parseStaleTagWith(m) == [branchName |-> Group(m, 1), tagNum |-> parseInt(Group(m, 2))]
parseStaleParentTag(tag) ==
  parseStaleTagWith(matchTwo(tag, StalePrefix, Separator, Closing, TRUE))

generateEvolveTag(step, scope) ==
  EvolvePrefix \o scope \o Separator \o step \o Closing

parseEvolveTagWith(m) == [scope |-> Group(m, 1), step |-> parseInt(Group(m, 2))]
parseEvolveTag(tag) ==
  parseEvolveTagWith(matchTwo(tag, EvolvePrefix, Separator, Closing, FALSE))

makeSplitBranchTag(branchName) == SplitPrefix \o branchName \o Closing
parseSplitBranchTag(tag) ==
  [branchName |-> Group(matchOne(tag, SplitPrefix, Closing, FALSE), 1)]

makeSplitBranchBranchName(sourceBranchName) == SplitRootPrefix \o sourceBranchName
parseSplitBranchBranchName(rootBranchName) ==
  [sourceBranch |-> Group(matchOne(rootBranchName, SplitRootPrefix, <<>>, TRUE), 1)]

\* the codec as a state machine: the fields of a tag are chosen, the name is
\* made from them (or a name that resembles a tag is read from `git tag`),
\* and the name is parsed
MaxPieces == 5
Pieces == {<<"a">>, <<"1">>, <<"-">>, <<"{", "{">>, <<"}", "}">>, <<"}">>}
\* branch names git accepts: no leading '-'
BranchNames ==
  {n \in {Flatten(p) : p \in UNION {[1..k -> Pieces] : k \in 1..MaxPieces}} :
     Head(n) # "-"}
ScopeNames == {<<"s", "e", "l", "f">>, <<"d", "i", "r", "e", "c", "t", "s">>, <<"f", "u", "l", "l">>}
TagNums == {0, 12}

Fields(kind, name, n) ==
  [kind |-> kind, form |-> "fields", name |-> name, n |-> n,
   numField |-> NumStr(n), pre |-> <<>>, suf |-> <<>>]
Resembling(kind, name, numField, pre, suf) ==
  [kind |-> kind, form |-> "name", name |-> name, n |-> 0,
   numField |-> numField, pre |-> pre, suf |-> suf]

CodecInputs ==
  {Fields("stale", b, n) : b \in BranchNames, n \in TagNums}
    \cup {Fields("evolve", sc, n) : sc \in ScopeNames, n \in TagNums}
    \cup {Fields(kind, b, 0) : kind \in {"split", "splitBranch"}, b \in BranchNames}
    \cup {Resembling(kind[1], kind[2], f, pre, suf) :
            kind \in {<<"stale", <<"a">>>>, <<"evolve", <<"f", "u", "l", "l">>>>},
            f \in {<<"1">>, <<"x">>, <<"1", "x">>, <<>>},
            pre \in {<<>>, <<"x">>}, suf \in {<<>>, <<"x">>}}

encode(in) ==
  IF in.kind = "stale" THEN makeStaleParentTag(in.name, in.numField)
  ELSE IF in.kind = "evolve" THEN generateEvolveTag(in.numField, in.name)
  ELSE IF in.kind = "split" THEN makeSplitBranchTag(in.name)
  ELSE makeSplitBranchBranchName(in.name)

decode(kind, name) ==
  IF kind = "stale" THEN parseStaleParentTag(name)
  ELSE IF kind = "evolve" THEN parseEvolveTag(name)
  ELSE IF kind = "split" THEN parseSplitBranchTag(name)
  ELSE parseSplitBranchBranchName(name)

InitCodec ==
  /\ Holds(Canon(TreeInit(1, 2, 2)))
  /\ cmds = 0
  /\ pc = "codec"
  /\ ev \in CodecInputs
  /\ obs = [phase |-> "fields", name |-> <<>>, out |-> <<>>]

CodecUnchanged ==
  UNCHANGED <<parentOf, nCommits, tip, head, detachedAt, staleTags, mbTags,
              evolveTags, rebasing, cmds, pc, ev>>

Encode ==
  /\ pc = "codec" /\ obs.phase = "fields" /\ ev.form = "fields"
  /\ obs' = [phase |-> "name", name |-> encode(ev), out |-> <<>>]
  /\ CodecUnchanged

\* a name listed by `git tag` that resembles a tag
ReadName ==
  /\ pc = "codec" /\ obs.phase = "fields" /\ ev.form = "name"
  /\ obs' = [phase |-> "name", name |-> ev.pre \o encode(ev) \o ev.suf,
             out |-> <<>>]
  /\ CodecUnchanged

Decode ==
  /\ pc = "codec" /\ obs.phase = "name"
  /\ obs' = [phase |-> "decoded", name |-> obs.name,
             out |-> decode(ev.kind, obs.name)]
  /\ CodecUnchanged

NextCodec == Encode \/ ReadName \/ Decode

SpecCodec == InitCodec /\ [][NextCodec]_vars

\* ------------------------------------------------------ commands/push/chain
\* The locals of pushChainImpl, kept in ev while pc = "push": the limiter
\* (max, its queue, the branches whose push is running), visited, failed,
\* pushed (in the order the pushes completed), pending, and what the summary
\* printed last; initial is the set of the branches it scheduled first.  failed is a Set in the source and is kept
\* as the sequence of its insertions.
NoPush ==
  [start |-> "", includeMain |-> FALSE, max |-> 1, visited |-> {},
   failed |-> <<>>, pushed |-> <<>>, active |-> {}, queue |-> <<>>,
   pending |-> 0, initial |-> {}, skipped |-> {}, complete |-> FALSE]

MaxParallel == 2    \* the largest --max-parallel tried

\* Math.max(1, parallelInput); yargs hands over NaN for a --max-parallel
\* that is no numeral (`-j many`)
mathMax(parallelInput) ==
  IF parallelInput = NaN THEN NaN
  ELSE IF parallelInput < 1 THEN 1 ELSE parallelInput

\* active < max: NaN is below nothing and nothing is below it
below(active, max) == max # NaN /\ active < max

RECURSIVE next(_)
\* createLimiter.next: start queued tasks while fewer than max are running;
\* a started task runs up to its `git push`
next(p) ==
  IF below(Cardinality(p.active), p.max) /\ p.queue # <<>>
  THEN next([p EXCEPT !.active = @ \cup {Head(p.queue)}, !.queue = Tail(@)])
  ELSE p

\* scheduleBranch up to the first await of its task
scheduleBranch(p, branch) ==
  IF branch \in p.visited THEN p
  ELSE next([p EXCEPT !.visited = @ \cup {branch}, !.pending = @ + 1,
                      !.queue = Append(@, branch)])

RECURSIVE scheduleEach(_, _)
\* for (const child of childNames) scheduleBranch(child)
scheduleEach(p, names) ==
  IF names = <<>> THEN p
  ELSE scheduleEach(scheduleBranch(p, Head(names)), Tail(names))

\* the names getQualifiedChildNames returns for what findChildren found
QualifiedNames(found) ==
  [i \in 1..Len(SelectSeq(found.children, LAMBDA c : ~c.orphaned)) |->
     SelectSeq(found.children, LAMBDA c : ~c.orphaned)[i].branchName]

\* (every child, the orphaned ones too)
AllChildNames(found) ==
  [i \in 1..Len(found.children) |-> found.children[i].branchName]

getQualifiedChildNames(found) == QualifiedNames(found)

\* the end of a limited task: active--, next(), then onTaskDone
taskDone(p, branch) ==
  [next([p EXCEPT !.active = @ \ {branch}]) EXCEPT !.pending = @ - 1]

RECURSIVE collectDescendants(_, _, _, _)
\* collectDescendants over the failed branches: work holds the branches whose
\* children are still to be listed; the result is the set collected and the
\* repository the listings leave
collectDescendants(g, work, acc, fuel) ==
  IF work = <<>> \/ fuel = 0 THEN [acc |-> acc, repo |-> g]
  ELSE LET found == findChildren(g, Head(work))
           kids == SelectSeq(getQualifiedChildNames(found),
                             LAMBDA k : k \notin acc)
       IN collectDescendants(found.repo, kids \o Tail(work),
                             acc \cup Range(kids), fuel - 1)

\* pushChainImpl after waitForIdle: the summary and `git checkout startBranch`
pushSummary(g, p, collected) ==
  [repo |-> restoreBranch(collected.repo, p.start),
   push |-> [p EXCEPT !.skipped = (collected.acc \ Range(p.pushed))
                                    \ Range(p.failed),
                      !.complete = TRUE],
   pc |-> "idle"]

\* the command after a step of the scheduler: it goes on waiting while tasks
\* are pending
pushAwait(g, p) ==
  IF p.pending # 0 THEN [repo |-> g, push |-> p, pc |-> "push"]
  ELSE pushSummary(g, p,
         collectDescendants(g, p.failed, {}, 2 * Cardinality(Branches)))

\* pushChainImpl up to waitForIdle
pushChainStart(g, found, includeMain, maxParallel) ==
  LET startBranch == g.head
      shouldSkipCurrentBranch == startBranch \in {"master", "main"} /\ ~includeMain
      initialBranches == IF shouldSkipCurrentBranch
                         THEN getQualifiedChildNames(found)
                         ELSE <<startBranch>>
      g1 == IF shouldSkipCurrentBranch THEN found.repo ELSE g
  IN pushAwait(g1,
       scheduleEach([NoPush EXCEPT !.start = startBranch,
                                   !.includeMain = includeMain,
                                   !.max = mathMax(maxParallel),
                                   !.initial = Range(initialBranches)],
                    initialBranches))

\* the task of branch once its push has succeeded: pushed.push, the children
\* scheduled, then the task ends
pushSucceeded(p, branch, found) ==
  pushAwait(found.repo,
    taskDone(scheduleEach([p EXCEPT !.pushed = Append(@, branch)],
                          getQualifiedChildNames(found)),
             branch))

\* (a failed task that schedules the children all the same)
pushFailedScheduling(g, p, branch) ==
  pushAwait(findChildren(g, branch).repo,
    taskDone(scheduleEach([p EXCEPT !.failed = Append(@, branch)],
                          getQualifiedChildNames(findChildren(g, branch))),
             branch))

\* the task of branch once its push has failed: no child is scheduled
pushFailed(g, p, branch) ==
  pushAwait(g, taskDone([p EXCEPT !.failed = Append(@, branch)], branch))

\* bb push chain [--include-main] [-j maxParallel] on branch b
PushStart(b, includeMain, maxParallel) ==
  /\ Idle
  /\ evolveTags = {}
  /\ cmds < MaxCommands
  /\ \E g \in {checkout(Repo, b)} :
       \E found \in {findChildren(g, b)} :
          /\ (b = Trunk /\ ~includeMain) => ~found.hung
          /\ \E r \in {pushChainStart(g, found, includeMain, maxParallel)} :
               /\ Install(r.repo)
               /\ ev' = r.push
               /\ pc' = r.pc
  /\ obs' = NoObs
  /\ cmds' = cmds + 1

\* `git push origin b -f` returns for a running task, with or without error
PushResult(b, ok) ==
  /\ pc = "push"
  /\ b \in ev.active
  /\ \E found \in {findChildren(Repo, b)} :
       /\ ok => ~found.hung
       /\ \E r \in {IF ok THEN pushSucceeded(ev, b, found)
                          ELSE pushFailed(Repo, ev, b)} :
            /\ Install(r.repo)
            /\ ev' = r.push
            /\ pc' = r.pc
  /\ UNCHANGED <<obs, cmds>>

\* the commands that shape the tree before a push: amend and rebase
NextPush ==
  \/ \E b \in Branches : Amend(b)
  \/ \E b \in Feature, to \in Branches : Rebase(b, to, TRUE, FALSE)
  \/ \E b \in Branches, includeMain \in BOOLEAN,
        maxParallel \in {NaN} \cup 0..MaxParallel :
        PushStart(b, includeMain, maxParallel)
  \/ \E b \in Branches, ok \in BOOLEAN : PushResult(b, ok)

SpecPush == Init /\ [][NextPush]_vars

\* ------------------------------------------------------ commands/unamend, pull
\* unamendImpl: with matching files (and the prompt confirmed) the last
\* commit is replaced by `git commit --amend`; nothing else is called
unamendImpl(g, matched) ==
  IF ~matched THEN g
  ELSE [g EXCEPT !.par = Append(@, g.par[HeadCommit(g)]), !.n = g.n + 1,
                 !.tip[g.head] = g.n + 1]

\* git pull: "none" brings nothing, "new" puts one upstream commit on the
\* tip, "failed" throws
gitPull(g, upstream) ==
  IF upstream = "new"
  THEN [g EXCEPT !.par = Append(@, HeadCommit(g)), !.n = g.n + 1,
                 !.tip[g.head] = g.n + 1]
  ELSE g

\* (a pull that never marks the old tip)
pullUnmarked(g, found, upstream) == gitPull(found.repo, upstream)

\* pull: found is what findChildren(currentBranch) returned before the pull
pullImpl(g, found, upstream) ==
  IF upstream = "new"
  THEN markStale(gitPull(found.repo, upstream), HeadCommit(g), g.head,
                 hasNonOrphaned(found.children))
  ELSE found.repo

\* bb unamend <filename> on branch b
Unamend(b, matched) ==
  /\ Idle
  /\ evolveTags = {}
  /\ cmds < MaxCommands
  /\ \E g \in {unamendImpl(checkout(Repo, b), matched)} :
        /\ Install(g)
        /\ obs' = Obs("unamend", b, "", "done", 0, Repo, g, OnTip(Repo, b))
  /\ ev' = NoEv
  /\ cmds' = cmds + 1
  /\ UNCHANGED pc

\* bb pull on branch b
Pull(b, upstream) ==
  /\ Idle
  /\ evolveTags = {}
  /\ cmds < MaxCommands
  /\ \E g0 \in {checkout(Repo, b)} :
       \E found \in {findChildren(g0, b)} :
          /\ ~found.hung
          /\ \E g \in {pullImpl(g0, found, upstream)} :
               /\ Install(g)
               /\ obs' = Obs("pull", b, "", upstream, 0, Repo, g, OnTip(Repo, b))
  /\ ev' = NoEv
  /\ cmds' = cmds + 1
  /\ UNCHANGED pc

\* the commands that move the tip of the current branch
NextTips ==
  \/ \E b \in Branches : Amend(b)
  \/ \E b \in Branches, matched \in BOOLEAN : Unamend(b, matched)
  \/ \E b \in Branches, upstream \in {"none", "new", "failed"} : Pull(b, upstream)

SpecTips == Init /\ [][NextTips]_vars

\* ------------------------------------------- commands/evolve: stray --continue
\* evolveImpl with --continue while no evolve tag exists: status is null, so
\* neither isContinuingSelf nor `status && options.continue` holds and the
\* command goes on to a new evolution of the scope; resumed records the flag
evolveContinueFresh(g, scope, confirm) ==
  [evolveImpl(g, scope, confirm) EXCEPT !.ev.resumed = TRUE]

\* bb evolve --continue [--scope directs|full] on branch b, no evolve tag
EvolveContinueFresh(b, scope, confirm) ==
  /\ Idle
  /\ evolveTags = {}
  /\ cmds < MaxCommands
  /\ scope \in {"directs", "full"}
  /\ \E r \in {evolveContinueFresh(checkout(Repo, b), scope, confirm)} :
        /\ ~r.hung
        /\ Install(r.repo)
        /\ pc' = r.pc
        /\ ev' = r.ev
        /\ obs' = r.obs
  /\ cmds' = cmds + 1

NextFresh ==
  \/ \E b \in Branches : Amend(b)
  \/ \E b \in Branches, scope \in {"directs", "full"}, confirm \in BOOLEAN :
        EvolveContinueFresh(b, scope, confirm)
  \/ \E conflict \in BOOLEAN : EvolveChainStep(conflict)

SpecFresh == Init /\ [][NextFresh]_vars

\* ---------------------------------------- push/all findChildren: parentChecks
\* The parent checks of one findChildren call run as interleaved async
\* functions, one getParentBranch per first-parent commit (the cache).  ev
\* holds, per candidate that owns a resolution, where its getParentBranch
\* stands (at), the commit it is looking at (p), what its two tag queries
\* read (stale, mb) and its answer (out); obs holds the answers the same
\* resolutions give when run one after another.
\*   "lookup"  before `git branch --points-at <parentCommit>`
\*   "cleanup" before cleanupTags()
\*   "retag"   inside the script of retagMergeBase, the merge-base tags
\*             deleted and not yet recreated; execSync blocks the event loop
\*   "query"   the two `git tag --points-at` processes started, not yet read
\*   "read"    the processes have read the tags, the continuation is pending
\*   "done"    returned, or (out.diverged) recursing without end
NoAnswer == [branchName |-> {}, stale |-> FALSE, diverged |-> FALSE]
Answer(r) ==
  [branchName |-> r.branchName, stale |-> r.stale, diverged |-> r.diverged]

Check(at, p) == [at |-> at, p |-> p, stale |-> {}, mb |-> {}, out |-> NoAnswer]

\* the candidates that call getParentBranch: the first of each first-parent
\* commit
Owners(g, candidates) ==
  {c \in Range(candidates) :
     \A i, j \in 1..Len(candidates) :
        candidates[j] = c /\ FirstParent(g, candidates[i]) = FirstParent(g, c)
        => j <= i}

\* the repository is installed as it is: no commit is made during the call
Stored(g) ==
  /\ staleTags' = g.stale
  /\ mbTags' = g.mb
  /\ UNCHANGED <<parentOf, nCommits, tip, head, detachedAt, evolveTags, rebasing>>

Blocked == \E c \in DOMAIN ev.res : ev.res[c].at = "retag"
Checking(c, at) ==
  pc = "race" /\ c \in DOMAIN ev.res /\ ev.res[c].at = at

\* findChildren(parentBranchName) up to the start of the parent checks
StartChecks(parentBranchName) ==
  /\ Idle
  /\ evolveTags = {}
  /\ cmds < MaxCommands
  /\ \E owners \in {Owners(Repo, possibleChildren(Repo, parentBranchName))} :
       /\ owners # {}
       /\ ev' = [parent |-> parentBranchName,
                 res |-> [c \in owners |-> Check("lookup", FirstParent(Repo, c))]]
       /\ obs' = [c \in owners |-> Answer(getParentBranch(Repo, c))]
  /\ pc' = "race"
  /\ cmds' = cmds + 1
  /\ UNCHANGED <<parentOf, nCommits, tip, head, detachedAt, staleTags, mbTags,
                 evolveTags, rebasing>>

\* getParentBranch: a branch on the commit is the parent, not stale
PointsAtRead(c) ==
  /\ Checking(c, "lookup")
  /\ ~Blocked
  /\ ev' = [ev EXCEPT !.res[c] =
              IF PointsAt(Repo, @.p) # {}
              THEN [@ EXCEPT !.at = "done",
                             !.out = [branchName |-> PointsAt(Repo, ev.res[c].p),
                                      stale |-> FALSE, diverged |-> FALSE]]
              ELSE [@ EXCEPT !.at = "cleanup"]]
  /\ UNCHANGED <<parentOf, nCommits, tip, head, detachedAt, staleTags, mbTags,
                 evolveTags, rebasing, cmds, pc, obs>>

\* retagMergeBase, first half: git tag -d of every merge-base tag
RetagDelete(c) ==
  /\ Checking(c, "cleanup")
  /\ ~Blocked
  /\ Stored([Repo EXCEPT !.mb = {}])
  /\ ev' = [ev EXCEPT !.res[c].at = "retag"]
  /\ UNCHANGED <<cmds, pc, obs>>

\* retagMergeBase, second half, cleanupOrphanedStaleTags, and the start of
\* the two tag queries
RetagCreate(c) ==
  /\ Checking(c, "retag")
  /\ Stored(cleanupTags(Repo))
  /\ ev' = [ev EXCEPT !.res[c].at = "query"]
  /\ UNCHANGED <<cmds, pc, obs>>

\* the processes `git tag --points-at <parentCommit> | grep` read the tags
\* (those of HEAD when the commit is empty); nothing orders this read with
\* the script of another resolution
TagsRead(c) ==
  /\ Checking(c, "query")
  /\ \E q \in {IF ev.res[c].p = 0 THEN HeadCommit(Repo) ELSE ev.res[c].p} :
       ev' = [ev EXCEPT !.res[c] =
                [@ EXCEPT !.at = "read",
                          !.stale = {t \in staleTags : t.commit = q},
                          !.mb = {t \in mbTags : t.commit = q}]]
  /\ UNCHANGED <<parentOf, nCommits, tip, head, detachedAt, staleTags, mbTags,
                 evolveTags, rebasing, cmds, pc, obs>>

\* the rest of getParentBranch: the answer from what the queries read, or
\* the recursive call on the commit
answerFrom(g, r) ==
  IF r.stale # {}
  THEN [r EXCEPT !.at = "done",
                 !.out = [branchName |-> {FirstStaleTag(r.stale).branchName},
                          stale |-> TRUE, diverged |-> FALSE]]
  ELSE IF r.mb # {}
  THEN [r EXCEPT !.at = "done",
                 !.out = [branchName |-> {Trunk}, stale |-> TRUE,
                          diverged |-> FALSE]]
  ELSE IF r.p = 0
  THEN [r EXCEPT !.at = "done", !.out = Answer(Diverged)]
  ELSE Check("lookup", g.par[r.p])

Answered(c) ==
  /\ Checking(c, "read")
  /\ ~Blocked
  /\ ev' = [ev EXCEPT !.res[c] = answerFrom(Repo, @)]
  /\ UNCHANGED <<parentOf, nCommits, tip, head, detachedAt, staleTags, mbTags,
                 evolveTags, rebasing, cmds, pc, obs>>

\* Promise.all(parentChecks) has resolved
ChecksDone ==
  /\ pc = "race"
  /\ \A c \in DOMAIN ev.res : ev.res[c].at = "done" /\ ~ev.res[c].out.diverged
  /\ pc' = "idle"
  /\ UNCHANGED <<parentOf, nCommits, tip, head, detachedAt, staleTags, mbTags,
                 evolveTags, rebasing, cmds, ev, obs>>

\* a trunk of two or three commits with the merge-base tags of an earlier
\* command
InitRace ==
  /\ \/ \E pcm \in {3, 4} : Holds(cleanupTags(Canon(TreeTrunk(pcm))))
     \/ \E pa \in {1, 2}, pb \in {2, 3}, pcm \in {2, 3, 4} :
          Holds(cleanupTags(Canon(TreeInit(pa, pb, pcm))))
  /\ cmds = 0
  /\ pc = "idle"
  /\ ev = NoEv
  /\ obs = NoObs

NextRace ==
  \/ \E parentBranchName \in Branches : StartChecks(parentBranchName)
  \/ \E c \in Feature : PointsAtRead(c)
  \/ \E c \in Feature : RetagDelete(c)
  \/ \E c \in Feature : RetagCreate(c)
  \/ \E c \in Feature : TagsRead(c)
  \/ \E c \in Feature : Answered(c)
  \/ ChecksDone

SpecRace == InitRace /\ [][NextRace]_vars

\* ------------------------------------------ a stale tag of a deleted branch
\* Gone is the name of a branch that `git branch -D` has removed (sync and
\* split do so) after an amend had left its stale tag on the commit its
\* children sit on.
\* the trees of Init with the stale tag of the deleted branch on a commit
InitGone ==
  /\ \E pa \in {1, 2}, pb \in {2, 3}, pcm \in {2, 3, 4}, c \in 1..5 :
       \E g \in {[TreeInit(pa, pb, pcm) EXCEPT !.stale =
                    {[branchName |-> Gone, tagNum |-> 0, commit |-> c]}]} :
          Holds(Canon(g))
  /\ cmds = 0
  /\ pc = "idle"
  /\ ev = NoEv
  /\ obs = NoObs

NextGone ==
  \/ \E b \in Branches : Amend(b)
  \/ \E b \in Feature, to \in Branches : Rebase(b, to, TRUE, FALSE)

SpecGone == InitGone /\ [][NextGone]_vars

\* ------------------------------------------------------------- properties
\* what the two Children Resolvers and the Parent Resolver report
Listed(found, c, orphaned) == ChildRec(c, orphaned) \in Range(found.children)
Resolves(g, c, P, stale) ==
  getParentBranch(g, c).branchName = {P} /\ getParentBranch(g, c).stale = stale

\* C1: once every command has run to completion, every stale-parent tag
\* points at a commit in the history of some branch, so that the sweep
\* deletes nothing
StaleTagsLive ==
  Idle =>
    /\ \A t \in staleTags : \E b \in Branches : t.commit \in Anc(parentOf, tip[b])
    /\ cleanupStaleParentTags(Repo).stale = staleTags

StaleTagsLiveWitness ==
  Idle /\ cmds >= 2 /\ Cardinality(staleTags) >= 2

\* the amend of branch P = obs.branch has just completed, and branch c sat
\* on the old tip P1, which is still the first-parent commit of c
AmendOrphans(c) == obs.cmd = "amend" /\ c \in obs.kids

FullComplete ==
  obs.cmd = "evolve" /\ obs.scope = "full" /\ obs.outcome = "complete"

\* C3 as stated: a full evolve that completes leaves no evolve tag, and
\* afterwards neither Children Resolver reports an orphaned child of the
\* starting branch or of a branch below it
FullEvolveLeavesNoOrphan ==
  FullComplete =>
    /\ evolveTags = {}
    /\ \A b \in Subtree(Repo, ev.initial) : \A c \in Branches :
         /\ ~Listed(findChildren(Repo, b), c, TRUE)
         /\ ~Listed(findChildrenCached(Repo, b), c, TRUE)

\* C4 as stated: after a complete full evolve from R every branch that was
\* a child of R before it has the tip of R as its first-parent commit, is
\* listed as a current child of R, and R has no stale-parent tag
FullEvolveChildrenCurrent ==
  FullComplete =>
    /\ \A c \in ev.kids :
         /\ parentOf[tip[c]] = tip[ev.initial]
         /\ Listed(findChildren(Repo, ev.initial), c, FALSE)
         /\ Listed(findChildrenCached(Repo, ev.initial), c, FALSE)
    /\ getStaleParentTags(Repo, ev.initial) = {}

\* every branch of the list resolves to P, stale exactly when it is listed
\* as orphaned
Dual(found, P) ==
  \A i \in 1..Len(found.children) :
     Resolves(Repo, found.children[i].branchName, P, found.children[i].orphaned)

\* C5 as stated: a branch a Children Resolver lists under P resolves to P,
\* stale exactly when it is listed as orphaned, also when branches share a tip
Duality ==
  Idle => \A P \in Branches :
            Dual(findChildren(Repo, P), P) /\ Dual(findChildrenCached(Repo, P), P)

\* both Children Resolvers, run on the repository the Parent Resolver left
ListedAfter(g, P, c, stale) ==
  /\ Listed(findChildren(g, P), c, stale)
  /\ Listed(findChildrenCached(g, P), c, stale)

CompleteFor(c, r) ==
  \A P \in Branches :
     r.branchName = {P} => ListedAfter(AfterResolve(Repo, r), P, c, r.stale)

\* C6 as stated: a branch that resolves to P is listed under P by both
\* Children Resolvers, as orphaned exactly when the resolution is stale
Completeness ==
  Idle => \A c \in Feature : CompleteFor(c, getParentBranch(Repo, c))

\* a directs evolve has taken a step or ended
DirectsRun ==
  \/ pc = "chain" /\ ev.scope = "directs"
  \/ obs.cmd = "evolve" /\ obs.scope = "directs" /\ obs.outcome # "refused"

\* C7 as stated: a directs evolve moves no branch that was orphaned when it
\* started
DirectsSkipsOrphans ==
  DirectsRun => ev.moved \cap ev.orphans = {}

\* C7 amended: a directs evolve moves no branch that was orphaned when it
\* started, the starting branch excepted
DirectsSkipsOrphanedChildren ==
  DirectsRun => ev.moved \cap ev.orphans \subseteq {ev.initial}

DirectsWitness ==
  /\ obs.cmd = "evolve" /\ obs.scope = "directs" /\ obs.outcome = "complete"
  /\ ev.orphans \ {ev.initial} # {}
  /\ ev.moved # {}

\* C8: an evolve of scope self moves no branch but the starting one
SelfMovesOnlyStart ==
  obs.cmd = "evolve" /\ obs.scope = "self" => obs.moved \subseteq {obs.branch}

SelfWitness ==
  obs.cmd = "evolve" /\ obs.scope = "self" /\ obs.moved = {obs.branch}

\* C9 as stated: an evolve started while evolve tags exist is refused,
\* moves no branch and leaves the evolve tags as they are
StartRefused ==
  obs.cmd = "evolve" /\ obs.hadEvo /\ pc = "idle" /\ ev = NoEv =>
    obs.outcome = "refused" /\ obs.moved = {} /\ obs.sameEvo

\* C10: when a step of a directs or full evolve stops on a conflict, the
\* evolve tags of that step and of the later ones are still there, and no
\* branch of a later step has moved
ConflictHalts ==
  obs.cmd = "evolve" /\ obs.outcome = "conflict" /\ obs.scope # "self" =>
    /\ \A i \in obs.step..(Len(ev.plan) - 1) :
         \E t \in evolveTags :
            /\ t.scope = obs.scope /\ t.step = i
            /\ PointsAt(Repo, t.commit) \cap ev.plan[i + 1] # {}
    /\ \A i \in (obs.step + 1)..(Len(ev.plan) - 1) :
         ev.plan[i + 1] \cap ev.moved = {}

ConflictWitness ==
  /\ obs.cmd = "evolve" /\ obs.outcome = "conflict" /\ obs.scope # "self"
  /\ obs.step >= 1
  /\ obs.step + 1 < Len(ev.plan)

\* an evolve ended between two steps was resumed and has completed
Resumed ==
  obs.cmd = "evolve" /\ obs.outcome = "complete" /\ ev.expect.step >= 1

\* C11 as stated: the resumed evolve rebases the branches of the remaining
\* steps, each once and in step order, and leaves the branch tree the
\* uninterrupted run leaves
Resumability ==
  Resumed =>
    /\ ev.done = SubSeq(ev.plan, ev.expect.step + 1, Len(ev.plan))
    /\ Shape(Repo) = ev.expect.shape

\* `evolve --abort` ran on an evolve stopped by a conflict at its step
\* obs.step
AbortedPaused ==
  obs.cmd = "abort" /\ obs.hadEvo /\ obs.reb # NoRebase

AbortKeepsEvolve ==
  AbortedPaused =>
    \A i \in (obs.step + 1)..(Len(ev.plan) - 1) :
      \E t \in evolveTags : t.step = i

\* C14 as stated: when an evolve has exhausted its queue, uninterrupted or
\* resumed, no evolve-progress marker is left and the branch checked out is
\* the branch the evolve was started on
CompletionRestores ==
  obs.cmd = "evolve" /\ obs.outcome = "complete" =>
    /\ evolveTags = {}
    /\ head = ev.initial /\ detachedAt = 0

\* C15 as stated: in a run that ends with 'complete' every branch that got
\* an evolve-progress marker at the start was rebased, in the first process
\* (the steps before the one it was ended at) or in the resumed one
NoQueuedBranchDropped ==
  obs.cmd = "evolve" /\ obs.outcome = "complete" =>
    \A i \in 1..Len(ev.plan) :
      i > ev.expect.step => \E j \in 1..Len(ev.done) : ev.done[j] = ev.plan[i]

\* C16 as stated: getParentBranch terminates for every live branch, the
\* trunk included, and a resolution whose walk along the first parents
\* passes the root commit returns the trunk name
ResolverTerminates ==
  \A b \in Branches :
    \E r \in {getParentBranch(Repo, b)} :
      /\ ~r.diverged
      /\ r.root => r.branchName = {Trunk}

\* the live branches whose tip is commit p
LiveAt(p) == {b \in Branches : p # 0 /\ tip[b] = p}

\* the answer C17 states for a subject with first-parent commit p, g2 being
\* the repository with the tags as the resolver reads them
CaseAnalysis(r, p, g2) ==
  IF Cardinality(LiveAt(p)) = 1
  THEN r.branchName = LiveAt(p) /\ ~r.stale
  ELSE IF LiveAt(p) # {}
  THEN TRUE
  ELSE IF \E t \in g2.stale : t.commit = p
  THEN r.stale /\ \E t \in g2.stale : t.commit = p /\ r.branchName = {t.branchName}
  ELSE IF \E t \in g2.mb : t.commit = p
  THEN r.stale /\ r.branchName = {Trunk}
  ELSE \E rr \in {resolveFrom(g2, g2.par[p])} :
         r.branchName = rr.branchName /\ r.stale = rr.stale

\* C17: getParentBranch returns the live branch on the first-parent commit
\* of its subject, else the branch of a stale-parent marker on that commit,
\* else the trunk when a merge-base marker is on it, else what it returns
\* for that commit as the subject
ResolverCases ==
  \A X \in Branches :
    CaseAnalysis(getParentBranch(Repo, X), FirstParent(Repo, X),
                 cleanupTags(Repo))

\* the list a Children Resolver returned for P holds neither P, the trunk
\* nor a pseudo-ref, no branch that resolves to one branch other than P, and
\* no branch twice
ProperChildren(found, P) ==
  /\ ChildNames(found.children) \cap {P, "main", "master", Pseudo} = {}
  /\ ChildNames(found.children) \subseteq Feature
  /\ \A c \in ChildNames(found.children) :
        \E r \in {getParentBranch(Repo, c)} :
          IsName(r.branchName) => r.branchName = {P}
  /\ \A i, j \in 1..Len(found.children) :
        found.children[i].branchName = found.children[j].branchName => i = j

\* C18 as stated: neither Children Resolver ever returns, for a branch P, P
\* itself, the trunk, a detached-HEAD pseudo-ref or a branch whose parent
\* resolves to another branch, and none returns a branch twice or as both
\* current and orphaned
ChildrenProper ==
  \A P \in Branches :
    /\ ProperChildren(findChildren(Repo, P), P)
    /\ ProperChildren(findChildrenCached(Repo, P), P)

\* the repository markStale is called on by `bb amend` on branch b: the tip
\* of b replaced by a new commit on the same parent
AmendCall(b) ==
  [checkout(Repo, b) EXCEPT !.par = Append(@, parentOf[tip[b]]),
                            !.n = nCommits + 1, !.tip[b] = nCommits + 1]

\* the tag with the next number of branchName in g, on commit
NextMarker(g, commit, branchName) ==
  [branchName |-> branchName,
   tagNum |-> MaxNum({t.tagNum : t \in getStaleParentTags(g, branchName)}) + 1,
   commit |-> commit]

NumbersDistinct(tags) ==
  \A t, u \in tags : t.branchName = u.branchName /\ t.tagNum = u.tagNum => t = u

MarkStaleFalseAddsNone ==
  Idle => \A b \in Branches :
    /\ \A c \in 1..nCommits :
          markStale(Repo, c, b, FALSE).stale \subseteq staleTags
    /\ \A to \in Branches \ {b} :
          \E g \in {gitRebase(checkout(Repo, b), b, tip[to], "done")} :
            markStale(g, tip[b], b, FALSE).stale \subseteq g.stale

\* a self evolve has rebased a branch without children, with which
\* rebaseImpl calls markStale(fromCommit, from, false)
MarkStaleFalseWitness ==
  /\ obs.cmd = "evolve" /\ obs.scope = "self" /\ obs.outcome = "done"
  /\ obs.moved = {obs.branch}
  /\ findChildren(Repo, obs.branch).children = <<>>
  /\ Cardinality(getStaleParentTags(Repo, obs.branch)) <= obs.hadStale

\* repository g with the next stale-parent tag of branchName put on commit
Tagged(g, commit, branchName) ==
  [g EXCEPT !.stale = @ \cup {NextMarker(g, commit, branchName)}]

\* the repositories the sweep is called on for branch b: the repository as
\* it is, and the tagged ones an amend of b and a rebase of b onto another
\* branch (done or stopped on a conflict) have left
SweepInputs(b) ==
  {Repo, Tagged(AmendCall(b), tip[b], b)}
    \cup {Tagged(gitRebase(checkout(Repo, b), b, tip[to], outcome), tip[b], b) :
            to \in Branches \ {b}, outcome \in {"done", "conflict"}}

\* the tags of g whose commit some live branch contains
LiveTags(g) ==
  {t \in g.stale : \E l \in Branches : t.commit \in Anc(g.par, g.tip[l])}

SweptOnce(g, s) ==
  /\ s.stale = LiveTags(g)
  /\ s = [g EXCEPT !.stale = LiveTags(g)]
  /\ cleanupStaleParentTags(s) = s
  /\ g.stale = {} => s = g

\* C21: cleanupStaleParentTags deletes exactly the stale-parent tags whose
\* commit no live branch contains and nothing else, a second sweep after it
\* changes nothing, and with no stale-parent tag it changes nothing
SweepIdempotent ==
  \A b \in Branches : \A g \in SweepInputs(b) :
    SweptOnce(g, cleanupStaleParentTags(g))

\* a command has swept a stale-parent tag of its branch away
SweepWitness ==
  /\ obs.cmd \in {"amend", "evolve"}
  /\ obs.hadStale > Cardinality(getStaleParentTags(Repo, obs.branch))

\* C22 as stated: a stale-parent tag whose contains query fails is kept by
\* the sweep
SweepKeepsOnError ==
  \A failed \in SUBSET staleTags :
    failed \subseteq cleanupStaleParentTagsFailing(Repo, failed).stale

\* the commits C23 allows a merge-base tag on in g: merge-bases of the trunk
\* with another live branch that are not the trunk tip and that no live
\* branch reaches
AllowedMergeBases(g) ==
  {c \in {MergeBase(g.par, g.tip[Trunk], g.tip[b]) : b \in Feature} \ {0} :
     /\ c # g.tip[Trunk]
     /\ \A l \in Branches : c \notin Anc(g.par, g.tip[l])}

\* C23 as stated: after retagMergeBase every merge-base tag is on such a
\* commit, and there is no merge-base tag when there is no such commit
MergeBaseTagsProper ==
  \E g \in {retagMergeBase(Repo)} :
    /\ \A t \in g.mb : t.commit \in AllowedMergeBases(g)
    /\ AllowedMergeBases(g) = {} => g.mb = {}

\* C24: after retagMergeBase the merge-base tags are numbered 1..n, one
\* number per tag and one tag per commit, and a second retagMergeBase
\* directly after the first leaves the same tags on the same commits
MergeBaseNumbering ==
  \E g \in {retagMergeBase(Repo)} :
    /\ {t.num : t \in g.mb} = 1..Cardinality(g.mb)
    /\ \A t, u \in g.mb : t.num = u.num \/ t.commit = u.commit => t = u
    /\ retagMergeBase(g) = g

\* a command has refreshed the merge-base tags of a trunk with two
\* merge-bases
MergeBaseWitness ==
  /\ Cardinality(mbTags) = 2
  /\ Cardinality({t.commit : t \in mbTags}) = 2
  /\ mbTags = retagMergeBase(Repo).mb
  /\ cmds >= 1

\* the fields a well-formed name of the kind stands for
FieldsOf(in) ==
  IF in.kind = "stale" THEN [branchName |-> in.name, tagNum |-> in.n]
  ELSE IF in.kind = "evolve" THEN [scope |-> in.name, step |-> in.n]
  ELSE IF in.kind = "split" THEN [branchName |-> in.name]
  ELSE [sourceBranch |-> in.name]

\* C25 as stated: for every kind of marker and all field values, parsing
\* the name made from the fields returns the fields
RoundTrip ==
  obs.phase = "decoded" /\ ev.form = "fields" => obs.out = FieldsOf(ev)

\* the name read is not a tag of its kind: something stands before or
\* after the pattern, or the number field is not a base-10 integer
Malformed(in) ==
  \/ in.pre # <<>> \/ in.suf # <<>>
  \/ in.numField = <<>>
  \/ \E k \in 1..Len(in.numField) : ~IsDigit(in.numField[k])

\* the result of a parse that matched nothing
NoFields(kind) ==
  IF kind = "stale" THEN [branchName |-> <<>>, tagNum |-> NaN]
  ELSE [scope |-> <<>>, step |-> NaN]

\* C26 as stated: parseStaleParentTag and parseEvolveTag return the no-match
\* result, no name and no number, for a name that is not a tag of their kind
DecodeRejects ==
  obs.phase = "decoded" /\ ev.form = "name" /\ Malformed(ev)
    => obs.out = NoFields(ev.kind)

\* the children of the branch that qualify for the scope, in the order the
\* Children Resolver lists them
Qualifying(children, scope) ==
  SelectSeq(children, LAMBDA child : scope = "full" \/ ~child.orphaned)

\* the first tags of the plan sit on the branches of seed, in that order,
\* and no later tag sits on another branch of children; without a seed there
\* is no tag
Seeded(plan, seed, children) ==
  /\ Len(plan) >= Len(seed)
  /\ \A i \in 1..Len(seed) : plan[i] = {seed[i].branchName}
  /\ \A i \in (Len(seed) + 1)..Len(plan) : plan[i] \cap ChildNames(children) = {}
  /\ seed = <<>> => plan = <<>>

\* the queue an evolve of the scope started on the trunk is seeded with
SeededFrom(plan, found, scope) ==
  Seeded(plan, Qualifying(found.children, scope), found.children)

\* the step that starts an evolve on the trunk and tags its queue
TrunkStarted ==
  pc = "idle" /\ pc' = "chain" /\ ev'.initial = Trunk /\ ~ev'.resumed

\* an evolve started on the trunk has not moved the trunk and no evolve tag
\* is on it
TrunkUntouched ==
  ev.initial = Trunk =>
    /\ Trunk \notin ev.moved
    /\ \A t \in evolveTags : t.commit # tip[Trunk]
    /\ \A i \in 1..Len(ev.plan) : Trunk \notin ev.plan[i]

\* a declined confirmation has moved no branch and left no evolve tag
DeclinedUntouched ==
  obs.outcome = "declined" =>
    obs.branch = Trunk /\ obs.moved = {} /\ evolveTags = {} /\ ev = NoEv

IsPush(e) == "pushed" \in DOMAIN e

\* the branches whose push has been started
Begun(p) == p.active \cup Range(p.pushed) \cup Range(p.failed)

\* C28: a branch pushed by push chain, the first ones excepted, has a parent
\* whose push has succeeded, and no branch below a branch whose push failed
\* is scheduled
ParentsFirst ==
  IsPush(ev) =>
    /\ \A b \in Begun(ev) \ ev.initial :
          /\ getParentBranch(Repo, b).branchName # {}
          /\ getParentBranch(Repo, b).branchName \subseteq Range(ev.pushed)
    /\ \A i \in 1..Len(ev.failed) :
          (Subtree(Repo, ev.failed[i]) \ {ev.failed[i]}) \cap ev.visited = {}

ParentsFirstWitness ==
  /\ IsPush(ev) /\ ev.complete
  /\ Len(ev.pushed) >= 2
  /\ ev.failed # <<>>
  /\ ev.skipped # {}

RECURSIVE NonOrphanedBelow(_, _, _)
\* the branches of S and the branches reached from them through children
\* that are not orphaned
GrownBelow(g, S, fuel, kids) ==
  IF fuel = 0 \/ kids \subseteq S THEN S
  ELSE NonOrphanedBelow(g, S \cup kids, fuel - 1)

NonOrphanedBelow(g, S, fuel) ==
  GrownBelow(g, S, fuel,
             UNION {Range(QualifiedNames(findChildren(g, b))) : b \in S})

\* the orphaned children of branch b
OrphanedChildren(g, b) ==
  ChildNames(findChildren(g, b).children) \ Range(QualifiedNames(findChildren(g, b)))

\* the branches a push chain started on p.start is to push
ChainOf(g, p) ==
  IF p.start = Trunk /\ ~p.includeMain
  THEN NonOrphanedBelow(g, {Trunk}, Cardinality(Branches)) \ {Trunk}
  ELSE NonOrphanedBelow(g, {p.start}, Cardinality(Branches))

\* C29: when no push fails, push chain pushes the current branch and the
\* branches below it through non-orphaned children, each once; it pushes no
\* orphaned child of a branch of the chain and nothing below one, and the
\* trunk only with --include-main
PushesChain ==
  IsPush(ev) /\ ev.complete /\ ev.failed = <<>> =>
    /\ Range(ev.pushed) = ChainOf(Repo, ev)
    /\ Len(ev.pushed) = Cardinality(Range(ev.pushed))
    /\ \A b \in Range(ev.pushed) \cup {ev.start} :
          \A c \in OrphanedChildren(Repo, b) :
             Subtree(Repo, c) \cap Range(ev.pushed) = {}
    /\ Trunk \in Range(ev.pushed) => ev.start = Trunk /\ ev.includeMain

PushesChainWitness ==
  /\ IsPush(ev) /\ ev.complete /\ ev.failed = <<>>
  /\ Len(ev.pushed) >= 2
  /\ \E b \in Range(ev.pushed) : OrphanedChildren(Repo, b) # {}

\* a call of evolveChain has rebased the branch X
Evolved(X) ==
  /\ pc = "chain" /\ ev.cur = {X} /\ X \in Feature
  /\ ev'.step = ev.step + 1

\* the name the Parent Resolver gives as the parent of X is the same before
\* and after the call
SameParent(X) ==
  getParentBranch(Repo', X).branchName = getParentBranch(Repo, X).branchName

\* C30: every branch an evolve of scope directs or full rebases has the
\* same parent name after its rebase as before it
ShapeKept ==
  [][\A X \in Feature : Evolved(X) => SameParent(X)]_vars

\* a command has moved its branch away from the commit the branches of
\* obs.kids had as first parent
TipMoved ==
  obs.cmd \in {"amend", "unamend", "pull"} /\ obs.branch \in obs.moved

\* C31: after amend, unamend or pull has moved branch P, every branch whose
\* first-parent commit was the old tip of P resolves to P, stale
MovedTipMarked ==
  TipMoved =>
    \A c \in obs.kids :
       /\ getParentBranch(Repo, c).branchName = {obs.branch}
       /\ getParentBranch(Repo, c).stale

\* the last command was an evolve that stopped on a rebase conflict
PausedEvolve ==
  obs.cmd = "evolve" /\ obs.outcome = "conflict" /\ rebasing # NoRebase

\* C32: while an evolve of any scope is stopped on a conflict, evolve tags
\* exist and getEvolveStatus gives the step and the scope it stopped at
PausedDiscoverable ==
  PausedEvolve =>
    /\ evolveTags # {}
    /\ getEvolveStatus(Repo) = [step |-> obs.step, scope |-> obs.scope]

\* C33: evolve --continue given while no evolve tag exists rebases no
\* branch and writes no evolve tag
StrayContinueInert ==
  ev.resumed => ev.moved = {} /\ evolveTags = {}

\* an evolve has tagged its queue and has rebased nothing yet
JustTagged ==
  pc = "chain" /\ ~ev.resumed /\ ev.step = 0 /\ ev.done = <<>> /\ ev.moved = {}

\* in the plan the resolved parent of a queued branch, when queued, has the
\* smaller step
ParentsBefore(g, plan) ==
  \A i, j \in 1..Len(plan) :
     /\ IsName(plan[i]) /\ IsName(plan[j]) /\ i # j
     /\ getParentBranch(g, NameOf(plan[j])).branchName = plan[i]
     => i < j

\* the branches rebased so far are the first of the plan, in its order
InPlanOrder(done, plan) ==
  /\ Len(done) <= Len(plan)
  /\ \A k \in 1..Len(done) : done[k] = plan[k]

\* C34: the evolve tags are numbered parents first, and the branches are
\* rebased in the order of the numbers
QueueParentsFirst ==
  /\ JustTagged => ParentsBefore(Repo, ev.plan)
  /\ ev.started # "" /\ ~ev.resumed => InPlanOrder(ev.done, ev.plan)

QueueWitness ==
  /\ obs.cmd = "evolve" /\ obs.outcome = "complete" /\ ~ev.resumed
  /\ ev.initial # Trunk
  /\ Len(ev.done) >= 3
  /\ ev.moved # {}

\* the steps the evolve tags carry
EvolveSteps == {t.step : t \in evolveTags}

\* C35: the evolve tags all carry one scope, their steps are a range of
\* numbers without gap or duplicate, and no branch is at two of them
WellFormedQueue ==
  /\ \A t, u \in evolveTags : t.scope = u.scope
  /\ \A t, u \in evolveTags : t.step = u.step => t = u
  /\ \A n \in 0..QueueFuel :
        (\E t, u \in evolveTags : t.step < n /\ n < u.step) => n \in EvolveSteps
  /\ \A t, u \in evolveTags :
        t # u => PointsAt(Repo, t.commit) \cap PointsAt(Repo, u.commit) = {}

\* C36: every parent check of a findChildren call that has returned gives
\* the answer it gives when the checks run one after another
RaceFree ==
  "res" \in DOMAIN ev =>
    \A c \in DOMAIN ev.res : ev.res[c].at = "done" => ev.res[c].out = obs[c]

\* the pushes running are never more than the limit, which is at least 1
WithinLimit ==
  IsPush(ev) => below(0, ev.max) /\ ~below(ev.max, Cardinality(ev.active))

\* C37: push chain never runs more pushes at once than maxParallel, which is
\* at least 1, and a push that waits in the queue waits for a running one,
\* whose return starts it
LimiterFair ==
  /\ WithinLimit
  /\ IsPush(ev) /\ ev.queue # <<>> => ev.active # {}

\* every branch whose task has ended, in the order the tasks ended
Ended(p) == Range(p.pushed) \cup Range(p.failed)

\* C38: push chain is complete only when every scheduled branch has been
\* pushed or has failed, each once, and nothing runs or waits; while it is not
\* complete a push is running, whose return brings completion nearer
IdleCompletion ==
  IsPush(ev) =>
    /\ ev.complete =>
          /\ ev.pending = 0 /\ ev.active = {} /\ ev.queue = <<>>
          /\ Ended(ev) = ev.visited
    /\ Len(ev.pushed) + Len(ev.failed) = Cardinality(Ended(ev))
    /\ ev.pending = Cardinality(ev.visited \ Ended(ev))
    /\ ~ev.complete => ev.active # {}

\* a command that runs cleanupTags has completed
Swept == Idle /\ obs.cmd \in {"amend", "rebase"}

\* C39: once a command has run cleanupOrphanedStaleTags no stale tag names
\* a branch that exists no more, and the stale tags of the branches that
\* exist pass through it
OrphansSwept ==
  Swept =>
    /\ \A t \in staleTags : t.branchName \in Branches
    /\ cleanupOrphanedStaleTags(Repo).stale = staleTags

====
